---- MODULE Spec2Model ----
(***************************************************************************)
(* Model of the workflow orchestrators of the repository:                  *)
(*   - mcp_payment_langgraph/orchestrator.py: PaymentOrchestrator, the     *)
(*     LangGraph payment workflow (classifier, routers, step nodes, the    *)
(*     per-user transaction memory and the response formatter);            *)
(*   - weather_langgraph/langgraph_multi_agent.py: RetryAgent, CacheAgent  *)
(*     and run_multi_agent.                                                *)
(* Text is modelled as a sequence of one-character strings, so that the    *)
(* substring, lower-casing and splitting operations of the code are        *)
(* computed rather than assumed.                                           *)
(***************************************************************************)
EXTENDS Integers, Sequences, FiniteSets, TLC

VARIABLES
    \* ---- payment orchestrator (orchestrator.py) ----
    node,                     \* next node of the run in progress, "idle" between runs
    state,                    \* PaymentGraphState of the run: insertion-ordered dict
    visited,                  \* nodes executed so far in the run, in order
    outcome,                  \* what the last process_request gave its caller
    user_transaction_memory,  \* self.user_transaction_memory: user_id -> deque(maxlen=5)
    recorded,                 \* history: user_id -> every entry ever appendleft-ed, in order
    runs,                     \* number of process_request calls started
    \* ---- Response Aggregator applied to an arbitrary State ----
    fstate,                   \* a State built by writing fields in some order
    fprev,                    \* fstate as it was before the last _format_response
    fapplied,                 \* number of times _format_response was applied to fstate
    fraised,                  \* whether the last _format_response raised
    flabel,                   \* the label _route_actions last returned for fstate
    \* ---- RetryAgent (langgraph_multi_agent.py) ----
    rpc,                      \* position in RetryAgent.run
    max_retries,              \* self.max_retries
    attempt,                  \* number of loop iterations started
    calls,                    \* results of self.agent.run, one per invocation
    result,                   \* local variable result
    returned,                 \* value returned by RetryAgent.run
    \* ---- run_multi_agent (langgraph_multi_agent.py) ----
    wpc,                      \* position in run_multi_agent
    wstate,                   \* the local dict state
    cache,                    \* CacheAgent.cache (class attribute, process-wide)
    weather_calls,            \* number of invocations of the weather step, per run
    wruns,                    \* history of finished runs
    audit_log,                \* audit_log of the run in progress
    \* ---- concurrent callers (threads) of the process-wide objects ----
    prun,                     \* per thread: its run's position in _get_transactions
    plog,                     \* history: the appendleft calls, in the order they happened
    wrun,                     \* per thread: its run_multi_agent's position and local state
    wlog,                     \* history: the cache checks and updates, in order
    \* ---- MCP tool handler (main.py) ----
    tool_call,                \* the call handle_call_tool is serving: name and arguments
    tool_response,            \* what handle_call_tool gave the transport for it
    \* ---- customer context (customer_manager.py) behind the tool handler ----
    current_customer_id,      \* CustomerManager.current_customer_id
    customer_cache,           \* CustomerManager.customer_cache: customer_id -> record
    customer_call,            \* history: the last tool call and the context it found
    customer_response         \* the response of that call

payVars == <<node, state, visited, outcome, user_transaction_memory, recorded, runs>>
fmtVars == <<fstate, fprev, fapplied, fraised, flabel>>
retryVars == <<rpc, max_retries, attempt, calls, result, returned>>
weatherVars == <<wpc, wstate, cache, weather_calls, wruns, audit_log>>
threadVars == <<prun, plog, wrun, wlog>>
toolVars == <<tool_call, tool_response>>
custVars == <<current_customer_id, customer_cache, customer_call, customer_response>>
vars == <<payVars, fmtVars, retryVars, weatherVars, threadVars, toolVars, custVars>>

(***************************************************************************)
(* Bounds of the model.                                                    *)
(***************************************************************************)
MaxWords == 2       \* words per generated request text
MaxRuns == 2        \* process_request calls per behaviour
MaxApply == 2       \* consecutive applications of _format_response to one State
MaxRetries == 3     \* largest max_retries a RetryAgent is built with
MaxWeatherRuns == 2 \* run_multi_agent calls per behaviour
TableSize == 3      \* rows the storage collaborator holds for the customer

(***************************************************************************)
(* Text: Python str as a sequence of characters.                           *)
(***************************************************************************)
UpperCase == <<"A", "B", "C", "D", "E", "F", "G", "H", "I", "J", "K", "L", "M",
               "N", "O", "P", "Q", "R", "S", "T", "U", "V", "W", "X", "Y", "Z">>
LowerCase == <<"a", "b", "c", "d", "e", "f", "g", "h", "i", "j", "k", "l", "m",
               "n", "o", "p", "q", "r", "s", "t", "u", "v", "w", "x", "y", "z">>

\* str.lower() on one character
LowerChar(c) ==
    IF \E i \in 1..Len(UpperCase) : UpperCase[i] = c
    THEN LowerCase[CHOOSE i \in 1..Len(UpperCase) : UpperCase[i] = c]
    ELSE c

\* str.lower()
Lower(s) == [i \in 1..Len(s) |-> LowerChar(s[i])]

\* the Python test  kw in s  (substring)
Contains(s, kw) ==
    \E i \in 0..(Len(s) - Len(kw)) : SubSeq(s, i + 1, i + Len(kw)) = kw

\* str.startswith
StartsWith(s, p) == Len(s) >= Len(p) /\ SubSeq(s, 1, Len(p)) = p

\* str.split(): the maximal runs of non-whitespace characters, in order
RECURSIVE SplitFrom(_, _, _)
SplitFrom(s, i, cur) ==
    IF i > Len(s)
    THEN IF cur = <<>> THEN <<>> ELSE <<cur>>
    ELSE IF s[i] = " "
         THEN IF cur = <<>> THEN SplitFrom(s, i + 1, <<>>)
                            ELSE <<cur>> \o SplitFrom(s, i + 1, <<>>)
         ELSE SplitFrom(s, i + 1, Append(cur, s[i]))

Split(s) == SplitFrom(s, 1, <<>>)

\* any(keyword in text for keyword in kws)
AnyKeyword(text, kws) == \E k \in 1..Len(kws) : Contains(text, kws[k])

(***************************************************************************)
(* The classifier's keyword table (_analyze_request).                      *)
(***************************************************************************)
KW_get_transactions ==
    << <<"t", "r", "a", "n", "s", "a", "c", "t", "i", "o", "n">>,
       <<"p", "a", "y", "m", "e", "n", "t">>,
       <<"h", "i", "g", "h", " ", "v", "a", "l", "u", "e">>,
       <<"l", "a", "s", "t", " ", "5">> >>
KW_raise_dispute ==
    << <<"d", "i", "s", "p", "u", "t", "e">>,
       <<"r", "a", "i", "s", "e", " ", "d", "i", "s", "p", "u", "t", "e">>,
       <<"f", "a", "i", "l", "e", "d">>,
       <<"p", "e", "n", "d", "i", "n", "g">> >>
KW_get_rm ==
    << <<"r", "e", "l", "a", "t", "i", "o", "n", "s", "h", "i", "p", " ", "m", "a", "n", "a", "g", "e", "r">>,
       <<"m", "a", "n", "a", "g", "e", "r">>,
       <<"r", "m">> >>
KW_verify_transaction ==
    << <<"v", "e", "r", "i", "f", "y">>,
       <<"c", "r", "e", "d", "i", "t", "e", "d">>,
       <<"c", "r", "e", "d", "i", "t">>,
       <<"c", "h", "e", "c", "k", " ", "t", "r", "a", "n", "s", "a", "c", "t", "i", "o", "n">> >>
KW_check_nostro ==
    << <<"n", "o", "s", "t", "r", "o">>,
       <<"e", "u", "r", "o", " ", "n", "o", "s", "t", "r", "o">>,
       <<"e", "x", "p", "o", "r", "t", " ", "s", "e", "t", "t", "l", "e", "m", "e", "n", "t">>,
       <<"e", "u", "r", "o", " ", "a", "c", "c", "o", "u", "n", "t">>,
       <<"e", "u", "r", "o", " ", "c", "r", "e", "d", "i", "t">> >>
KW_get_nostro_accounts ==
    << <<"n", "o", "s", "t", "r", "o", " ", "a", "c", "c", "o", "u", "n", "t", "s">>,
       <<"c", "o", "r", "r", "e", "s", "p", "o", "n", "d", "e", "n", "t", " ", "a", "c", "c", "o", "u", "n", "t", "s">>,
       <<"n", "o", "s", "t", "r", "o", " ", "l", "i", "s", "t">> >>

\* every keyword of the table
AllKeywords ==
    KW_get_transactions \o KW_raise_dispute \o KW_get_rm \o
    KW_verify_transaction \o KW_check_nostro \o KW_get_nostro_accounts

(***************************************************************************)
(* Request texts: up to MaxWords words of Vocabulary joined by single      *)
(* spaces (the empty word gives the empty and the whitespace-only texts),  *)
(* and three whole requests.                                               *)
(***************************************************************************)
Vocabulary ==
    { <<>>,
      <<"h", "e", "l", "l", "o">>,
      <<"t", "r", "a", "n", "s", "a", "c", "t", "i", "o", "n", "s">>,
      <<"D", "i", "s", "p", "u", "t", "e">>,
      <<"m", "a", "n", "a", "g", "e", "r">>,
      <<"v", "e", "r", "i", "f", "y">>,
      <<"n", "o", "s", "t", "r", "o">>,
      <<"A", "C", "C", "1">> }

ShowRecent ==
    <<"S", "h", "o", "w", " ", "m", "e", " ", "r", "e", "c", "e", "n", "t", " ",
      "t", "r", "a", "n", "s", "a", "c", "t", "i", "o", "n", "s">>
RaiseDisputeFailed ==
    <<"r", "a", "i", "s", "e", " ", "d", "i", "s", "p", "u", "t", "e", " ", "o", "n", " ",
      "a", " ", "f", "a", "i", "l", "e", "d", " ",
      "t", "r", "a", "n", "s", "a", "c", "t", "i", "o", "n">>

ListCorrespondent ==
    <<"L", "i", "s", "t", " ",
      "c", "o", "r", "r", "e", "s", "p", "o", "n", "d", "e", "n", "t", " ",
      "a", "c", "c", "o", "u", "n", "t", "s">>

\* requests whose tags combine a dispute with verification or nostro accounts
DisputeTexts ==
    {
      <<"v", "e", "r", "i", "f", "y", " ", "f", "a", "i", "l", "e", "d", " ", "p", "a",
        "y", "m", "e", "n", "t">>,
      <<"d", "i", "s", "p", "u", "t", "e", " ", "c", "o", "r", "r", "e", "s", "p", "o",
        "n", "d", "e", "n", "t", " ", "a", "c", "c", "o", "u", "n", "t", "s">>
    }

\* requests for transactions that name accounts
AccountTexts ==
    {
      <<"p", "a", "y", "m", "e", "n", "t", " ", "a", "c", "c", "o", "u", "n", "t", "_",
        "7", " ", "A", "C", "C", "1">>,
      <<"p", "a", "y", "m", "e", "n", "t", " ", "x", "A", "C", "C", "1", " ", "A", "C",
        "C", "2">>,
      <<"p", "a", "y", "m", "e", "n", "t", " ", "a", "c", "c", "1">>,
      <<" ", " ", "t", "r", "a", "n", "s", "a", "c", "t", "i", "o", "n", "s", " ", " ",
        " ", "A", "C", "C", "2", " ", " ", "a", "c", "c", "o", "u", "n", "t", "_", "7">>
    }

RECURSIVE TextsOf(_)
TextsOf(n) ==
    IF n = 0 THEN { <<>> }
    ELSE IF n = 1 THEN Vocabulary
    ELSE { t \o <<" ">> \o w : t \in TextsOf(n - 1), w \in Vocabulary }

RequestTexts ==
    UNION { TextsOf(n) : n \in 0..MaxWords } \cup
        { ShowRecent, RaiseDisputeFailed, ListCorrespondent } \cup DisputeTexts

(***************************************************************************)
(* Python values.  None and present values are told apart by .null; a dict *)
(* is the sequence of its <<key, value>> pairs in insertion order.         *)
(***************************************************************************)
None == [null |-> TRUE]
Some(x) == [null |-> FALSE, v |-> x]

\* truth value of an optional list or dict: not None and not empty
Truthy(val) == ~val.null /\ DOMAIN val.v # {}

\* key in d
DictHas(d, k) == \E i \in 1..Len(d) : d[i][1] = k

\* d.get(k, default)
DictGet(d, k, default) ==
    IF DictHas(d, k) THEN d[CHOOSE i \in 1..Len(d) : d[i][1] = k][2] ELSE default

\* d[k] = v : an existing key keeps its position, a new key goes last
DictSet(d, k, v) ==
    IF DictHas(d, k)
    THEN [i \in 1..Len(d) |-> IF d[i][1] = k THEN <<k, v>> ELSE d[i]]
    ELSE Append(d, <<k, v>>)

\* the keys of d in insertion order
DictKeys(d) == [i \in 1..Len(d) |-> d[i][1]]

\* r.get(k, default) on a flat record
RecGet(r, k, default) == IF k \in DOMAIN r THEN r[k] ELSE default

\* k in actions, for a Python list of strings
InList(k, actions) == \E i \in 1..Len(actions) : actions[i] = k

(***************************************************************************)
(* Classifier and routers.                                                 *)
(***************************************************************************)
\* ClassifyActions with the membership guard of the implicit get_rm dropped
ClassifyActions_always_append_rm(text) ==
    LET user_input == Lower(text)
        a1 == IF AnyKeyword(user_input, KW_get_transactions)
              THEN <<"get_transactions">> ELSE <<>>
        a2 == IF AnyKeyword(user_input, KW_raise_dispute)
              THEN Append(a1, "raise_dispute") ELSE a1
        a3 == IF AnyKeyword(user_input, KW_get_rm)
              THEN Append(a2, "get_rm") ELSE a2
        a4 == IF AnyKeyword(user_input, KW_verify_transaction)
              THEN Append(a3, "verify_transaction") ELSE a3
        a5 == IF AnyKeyword(user_input, KW_check_nostro)
              THEN Append(a4, "check_nostro") ELSE a4
        a6 == IF AnyKeyword(user_input, KW_get_nostro_accounts)
              THEN Append(a5, "get_nostro_accounts") ELSE a5
    IN  IF InList("raise_dispute", a6) THEN Append(a6, "get_rm") ELSE a6

\* the list actions built by _analyze_request from the request text
ClassifyActions(text) ==
    LET user_input == Lower(text)
        a1 == IF AnyKeyword(user_input, KW_get_transactions)
              THEN <<"get_transactions">> ELSE <<>>
        a2 == IF AnyKeyword(user_input, KW_raise_dispute)
              THEN Append(a1, "raise_dispute") ELSE a1
        a3 == IF AnyKeyword(user_input, KW_get_rm)
              THEN Append(a2, "get_rm") ELSE a2
        a4 == IF AnyKeyword(user_input, KW_verify_transaction)
              THEN Append(a3, "verify_transaction") ELSE a3
        a5 == IF AnyKeyword(user_input, KW_check_nostro)
              THEN Append(a4, "check_nostro") ELSE a4
        a6 == IF AnyKeyword(user_input, KW_get_nostro_accounts)
              THEN Append(a5, "get_nostro_accounts") ELSE a5
    IN  IF InList("raise_dispute", a6) /\ ~InList("get_rm", a6)
        THEN Append(a6, "get_rm") ELSE a6

\* _analyze_request: State -> State
_analyze_request(st) ==
    DictSet(st, "action_needed", ClassifyActions(DictGet(st, "user_input", <<>>)))

\* _route_actions deciding by the first tag of the list
_route_actions_first_tag(st) ==
    LET actions == DictGet(st, "action_needed", <<>>)
    IN  IF actions = <<>> THEN "format_response"
        ELSE IF actions[1] = "check_nostro" THEN "check_nostro_credit"
        ELSE IF actions[1] = "raise_dispute" THEN "get_rm"
        ELSE actions[1]

\* _route_actions: the label of the entry edge
_route_actions(st) ==
    LET actions == DictGet(st, "action_needed", <<>>)
    IN  IF InList("check_nostro", actions) THEN "check_nostro_credit"
        ELSE IF InList("get_nostro_accounts", actions) THEN "get_nostro_accounts"
        ELSE IF InList("get_transactions", actions) THEN "get_transactions"
        ELSE IF InList("verify_transaction", actions) THEN "verify_transaction"
        ELSE IF InList("get_rm", actions) THEN "get_rm"
        ELSE "format_response"

\* _check_next_action returning the node it leads to instead of the label
_check_next_action_node_name(st) ==
    IF InList("raise_dispute", DictGet(st, "action_needed", <<>>))
    THEN "get_relationship_manager" ELSE "format_response"

\* _check_next_action
_check_next_action(st) ==
    IF InList("raise_dispute", DictGet(st, "action_needed", <<>>))
    THEN "raise_dispute" ELSE "format_response"

\* _check_dispute_needed returning a label its edge map does not declare
_check_dispute_needed_unknown_label(st) ==
    IF InList("raise_dispute", DictGet(st, "action_needed", <<>>))
    THEN "dispute" ELSE "format_response"

\* _check_dispute_needed
_check_dispute_needed(st) ==
    IF InList("raise_dispute", DictGet(st, "action_needed", <<>>))
    THEN "raise_dispute" ELSE "format_response"

\* the conditional-edge maps of _build_graph: label -> node
RouteActionsEdges ==
    [get_transactions |-> "get_transactions",
     get_rm |-> "get_relationship_manager",
     verify_transaction |-> "verify_transaction",
     check_nostro_credit |-> "check_nostro_credit",
     get_nostro_accounts |-> "get_nostro_accounts",
     format_response |-> "format_response"]
\* edge maps that differ from _build_graph in one target
CheckNextActionEdges_straight_to_dispute ==
    [raise_dispute |-> "raise_dispute",
     format_response |-> "format_response"]
CheckDisputeNeededEdges_back_to_transactions ==
    [raise_dispute |-> "get_transactions",
     format_response |-> "format_response"]

CheckNextActionEdges ==
    [raise_dispute |-> "get_relationship_manager",
     format_response |-> "format_response"]
CheckDisputeNeededEdges ==
    [raise_dispute |-> "raise_dispute",
     format_response |-> "format_response"]

\* the node a conditional edge leads to; an undeclared label has no target
EdgeTarget(edges, label) ==
    IF label \in DOMAIN edges THEN edges[label] ELSE "undeclared"

(***************************************************************************)
(* The service collaborator (payment_service).  A call either returns or   *)
(* raises; what it returns depends on the data the store holds, which the  *)
(* model leaves open: an outcome is [raised, value].                       *)
(***************************************************************************)
MemoryCap == 5      \* deque(maxlen=5)
FetchLimit == 5     \* get_high_value_transactions(5)
SampleLimit == 1    \* get_high_value_transactions(1)

Raised == [raised |-> TRUE]
Returned(x) == [raised |-> FALSE, value |-> x]

Min(a, b) == IF a < b THEN a ELSE b

\* the status of the row at position p: completed, failed, pending, completed, ...
StatusAt(p) ==
    IF p = 2 THEN "failed" ELSE IF p = 3 THEN "pending" ELSE "completed"

\* the row at position p of the customer's high value transactions, newest first
Txn(p) ==
    [transaction_id |-> TableSize + 1 - p,
     currency |-> "USD",
     amount |-> 100000 * (p + 1),
     status |-> StatusAt(p),
     transaction_date |-> "2025-08-05",
     recipient_name |-> "Global Suppliers Inc"]

HighValueTransactions == [p \in 1..TableSize |-> Txn(p)]

\* service.get_high_value_transactions(limit): at most limit rows, in the
\* store's order, or a failure
get_high_value_transactions(limit) ==
    { Returned(SubSeq(HighValueTransactions, 1, n)) : n \in 0..Min(limit, TableSize) }
        \cup { Raised }

\* the record built by get_relationship_manager_details (it has no 'branch')
ManagerRecord ==
    [manager_id |-> "RM001",
     customer_id |-> "CUST001",
     name |-> "Sarah Johnson",
     email |-> "sarah.johnson@bank.com",
     phone |-> "+1-555-0101",
     specialization |-> "Corporate Banking",
     experience_years |-> 12,
     department |-> "Downtown",
     availability_hours |-> "Standard business hours"]

\* service.get_relationship_manager_details(): the manager record, or ValueError
\* (no customer context, no manager for the customer) or a storage error
get_relationship_manager_details == { Returned(ManagerRecord), Raised }

\* service.raise_dispute(transaction_id, reason): the dispute record or a failure
raise_dispute_call(transaction_id) ==
    { Returned([dispute_id |-> "DSP001",
                transaction_id |-> transaction_id,
                status |-> "open",
                assigned_manager |-> [name |-> "Sarah Johnson",
                                      email |-> "sarah.johnson@bank.com"]]),
      Raised }

\* service.verify_transaction_credit(transaction_id)
verify_transaction_credit(transaction_id) ==
    { Returned([transaction_id |-> transaction_id,
                is_credited |-> c,
                verification_status |-> IF c THEN "verified" ELSE "pending",
                notes |-> "Auto-generated verification record"]) : c \in BOOLEAN }
        \cup { Raised }

\* service.check_euro_nostro_credit(export_reference)
check_euro_nostro_credit ==
    { Returned([status |-> "success", message |-> "Euro nostro account checked"]),
      Raised }

\* service.get_nostro_accounts(currency)
get_nostro_accounts_call ==
    { Returned([accounts |-> << [account_id |-> "NOSTRO_EUR_001", currency |-> "EUR",
                                 account_type |-> "nostro",
                                 correspondent_bank |-> "Deutsche Bank AG",
                                 correspondent_swift |-> "DEUTDEFF",
                                 balance |-> 2500000,
                                 account_status |-> "active"] >>,
                total_count |-> 1,
                currency_filter |-> "all"]),
      Raised }

(***************************************************************************)
(* Actor memory: user_id -> deque(maxlen=5), a defaultdict.                *)
(***************************************************************************)
DefaultUser == <<"d", "e", "f", "a", "u", "l", "t", "_", "u", "s", "e", "r">>
PrefixACC == <<"A", "C", "C">>
PrefixAccount == <<"a", "c", "c", "o", "u", "n", "t", "_">>

\* appendleft that discards the new item, not the right-most one, when full
appendleft_keep_oldest(dq, x) ==
    IF Len(dq) >= MemoryCap THEN dq ELSE <<x>> \o dq

\* deque.appendleft on a deque of maxlen MemoryCap: a full deque drops its
\* right-most item
appendleft(dq, x) ==
    LET n == <<x>> \o dq
    IN  IF Len(n) > MemoryCap THEN SubSeq(n, 1, MemoryCap) ELSE n

\* memory[user_id] of the defaultdict: a missing key reads as an empty deque
MemoryAt(mem, user_id) == IF user_id \in DOMAIN mem THEN mem[user_id] ELSE <<>>

\* memory with memory[user_id] set to dq (the key is created when missing)
MemoryWith(mem, user_id, dq) ==
    [k \in DOMAIN mem \cup {user_id} |-> IF k = user_id THEN dq ELSE mem[k]]

\* for txn in transactions: memory[user_id].appendleft(txn)
RECURSIVE RecordAll(_, _)
RecordAll(dq, transactions) ==
    IF transactions = <<>> THEN dq
    ELSE RecordAll(appendleft(dq, Head(transactions)), Tail(transactions))

\* _get_user_id returning the last matching word, not the first
_get_user_id_last_word(st) ==
    LET words == Split(DictGet(st, "user_input", <<>>))
        hit(w) == StartsWith(w, PrefixACC) \/ StartsWith(w, PrefixAccount)
    IN  IF \E i \in 1..Len(words) : hit(words[i])
        THEN words[CHOOSE i \in 1..Len(words) :
                      hit(words[i]) /\ \A j \in (i + 1)..Len(words) : ~hit(words[j])]
        ELSE DefaultUser

\* _get_user_id
_get_user_id(st) ==
    LET words == Split(DictGet(st, "user_input", <<>>))
        hit(w) == StartsWith(w, PrefixACC) \/ StartsWith(w, PrefixAccount)
    IN  IF \E i \in 1..Len(words) : hit(words[i])
        THEN words[CHOOSE i \in 1..Len(words) :
                      hit(words[i]) /\ \A j \in 1..(i - 1) : ~hit(words[j])]
        ELSE DefaultUser

\* get_last_transactions_for_user: the list returned and the memory afterwards
get_last_transactions_for_user(mem, user_id) ==
    [value |-> MemoryAt(mem, user_id),
     memory |-> MemoryWith(mem, user_id, MemoryAt(mem, user_id))]

(***************************************************************************)
(* Step nodes.  Each takes the State and the outcome of the collaborator   *)
(* call it makes, and gives the State it returns.                          *)
(***************************************************************************)
\* _get_transactions: the State and the memory after the step
_get_transactions(st, mem, fetch) ==
    IF fetch.raised
    THEN [state |-> DictSet(st, "transactions", Some(<<>>)), memory |-> mem]
    ELSE LET user_id == _get_user_id(st)
         IN  [state |-> DictSet(st, "transactions", Some(fetch.value)),
              memory |-> IF fetch.value = <<>> THEN mem
                         ELSE MemoryWith(mem, user_id,
                                         RecordAll(MemoryAt(mem, user_id), fetch.value))]

\* _get_relationship_manager
_get_relationship_manager(st, rm) ==
    IF rm.raised
    THEN DictSet(st, "relationship_manager", None)
    ELSE DictSet(st, "relationship_manager", Some(rm.value))

\* the transactions of the list with status failed or pending, by position
Disputable(transactions) ==
    { i \in 1..Len(transactions) : transactions[i].status \in {"failed", "pending"} }

\* the transaction _raise_dispute picks: the first disputable one
FirstDisputable(transactions) ==
    transactions[CHOOSE i \in Disputable(transactions) :
                    \A j \in Disputable(transactions) : i <= j]

\* _raise_dispute; dispute is the outcome of service.raise_dispute when called
_raise_dispute(st, dispute) ==
    LET transactions == DictGet(st, "transactions", Some(<<>>))
    IN  IF Truthy(transactions)
        THEN IF Disputable(transactions.v) # {}
             THEN IF dispute.raised
                  THEN DictSet(st, "dispute_details",
                               Some([error |-> "Error raising dispute"]))
                  ELSE DictSet(st, "dispute_details", Some(dispute.value))
             ELSE DictSet(st, "dispute_details",
                          Some([error |-> "No disputable transactions found"]))
        ELSE DictSet(st, "dispute_details",
                     Some([error |-> "No transactions available to dispute"]))

\* _verify_transaction; sample is the outcome of get_high_value_transactions(1)
\* (called when the State has no transactions), verification the outcome of
\* verify_transaction_credit (called when a transaction id was found)
_verify_transaction(st, sample, verification) ==
    LET transactions == DictGet(st, "transactions", Some(<<>>))
        failed == DictSet(st, "verification_result",
                          Some([error |-> "Error verifying transaction"]))
        verified == IF verification.raised THEN failed
                    ELSE DictSet(st, "verification_result", Some(verification.value))
    IN  IF Truthy(transactions) THEN verified
        ELSE IF sample.raised THEN failed
        ELSE IF sample.value # <<>> THEN verified
        ELSE DictSet(st, "verification_result",
                     Some([error |-> "No transaction ID available for verification"]))

\* the transaction id _verify_transaction passes to verify_transaction_credit
VerifyTarget(st, sample) ==
    LET transactions == DictGet(st, "transactions", Some(<<>>))
    IN  IF Truthy(transactions) THEN transactions.v[1].transaction_id
        ELSE IF ~sample.raised /\ sample.value # <<>>
             THEN sample.value[1].transaction_id
             ELSE 0

\* _check_nostro_credit
_check_nostro_credit(st, nostro) ==
    IF nostro.raised
    THEN DictSet(st, "nostro_credit_result",
                 Some([error |-> "Error checking Euro nostro credit"]))
    ELSE DictSet(st, "nostro_credit_result", Some(nostro.value))

\* _get_nostro_accounts
_get_nostro_accounts(st, accounts) ==
    IF accounts.raised
    THEN DictSet(st, "nostro_accounts",
                 Some([error |-> "Error getting nostro accounts"]))
    ELSE DictSet(st, "nostro_accounts", Some(accounts.value))

(***************************************************************************)
(* _format_response.  final_response is "\n\n".join(response_parts); the   *)
(* model keeps the list of parts, each part a tuple <<section, kind, ...>> *)
(* of the values the part's text is formatted from.                        *)
(***************************************************************************)
NoActionSentence == "No actions were performed. Please specify what you'd like to do."

TxnKeys == {"transaction_id", "currency", "amount", "status", "transaction_date",
            "recipient_name"}
ManagerKeys == {"name", "email", "phone", "branch", "specialization", "experience_years"}

\* the transactions section: a heading, then one part per transaction in list order
TransactionParts(st) ==
    LET val == DictGet(st, "transactions", None)
        txns == IF Truthy(val) THEN val.v ELSE <<>>
    IN  IF txns = <<>> THEN <<>>
        ELSE << <<"transactions", "heading">> >> \o
             [i \in 1..Len(txns) |->
                <<"transactions", "entry", i, txns[i].transaction_id, txns[i].currency,
                  txns[i].amount, txns[i].status, txns[i].transaction_date,
                  txns[i].recipient_name>>]

\* txn['...'] raises KeyError when a transaction lacks a field
TransactionsRaise(st) ==
    LET val == DictGet(st, "transactions", None)
    IN  Truthy(val) /\ \E i \in 1..Len(val.v) : ~(TxnKeys \subseteq DOMAIN val.v[i])

ManagerParts(st) ==
    LET val == DictGet(st, "relationship_manager", None)
    IN  IF Truthy(val)
        THEN << <<"relationship_manager", "details", val.v.name, val.v.email, val.v.phone,
                  val.v.branch, val.v.specialization, val.v.experience_years>> >>
        ELSE <<>>

\* rm['...'] raises KeyError when the manager record lacks a field
ManagerRaise(st) ==
    LET val == DictGet(st, "relationship_manager", None)
    IN  Truthy(val) /\ ~(ManagerKeys \subseteq DOMAIN val.v)

DisputeParts(st) ==
    LET val == DictGet(st, "dispute_details", None)
    IN  IF ~Truthy(val) THEN <<>>
        ELSE IF "error" \in DOMAIN val.v
        THEN << <<"dispute", "error", val.v.error>> >>
        ELSE << <<"dispute", "raised", RecGet(val.v, "dispute_id", ""),
                  RecGet(val.v, "transaction_id", ""), RecGet(val.v, "status", ""),
                  RecGet(RecGet(val.v, "assigned_manager", <<>>), "name", "N/A"),
                  RecGet(RecGet(val.v, "assigned_manager", <<>>), "email", "N/A")>> >>

VerificationParts(st) ==
    LET val == DictGet(st, "verification_result", None)
    IN  IF ~Truthy(val) THEN <<>>
        ELSE IF "error" \in DOMAIN val.v
        THEN << <<"verification", "error", val.v.error>> >>
        ELSE << <<"verification", "result", RecGet(val.v, "transaction_id", ""),
                  IF RecGet(val.v, "is_credited", FALSE) THEN "Yes" ELSE "No",
                  RecGet(val.v, "verification_status", ""),
                  RecGet(val.v, "notes", "")>> >> \o
             (IF "credited_amount" \in DOMAIN val.v /\ val.v.credited_amount # 0
              THEN << <<"verification", "credited_amount", val.v.credited_amount>> >>
              ELSE <<>>) \o
             (IF "credited_date" \in DOMAIN val.v /\ val.v.credited_date # ""
              THEN << <<"verification", "credited_date", val.v.credited_date>> >>
              ELSE <<>>)

NostroCreditParts(st) ==
    LET val == DictGet(st, "nostro_credit_result", None)
    IN  IF ~Truthy(val) THEN <<>>
        ELSE IF "error" \in DOMAIN val.v
        THEN << <<"nostro_credit", "error", val.v.error>> >>
        ELSE << <<"nostro_credit", "heading">>,
                <<"nostro_credit", "status", RecGet(val.v, "status", "unknown")>>,
                <<"nostro_credit", "message", RecGet(val.v, "message", "")>> >> \o
             (IF "nostro_account" \in DOMAIN val.v
              THEN << <<"nostro_credit", "account", val.v.nostro_account>> >>
              ELSE <<>>) \o
             (IF "settlements" \in DOMAIN val.v /\ val.v.settlements # <<>>
              THEN << <<"nostro_credit", "settlements_heading">> >> \o
                   [i \in 1..Len(val.v.settlements) |->
                      <<"nostro_credit", "settlement", i, val.v.settlements[i]>>]
              ELSE <<>>) \o
             (IF "summary" \in DOMAIN val.v
              THEN << <<"nostro_credit", "summary", val.v.summary>> >>
              ELSE <<>>)

NostroAccountsParts(st) ==
    LET val == DictGet(st, "nostro_accounts", None)
    IN  IF ~Truthy(val) THEN <<>>
        ELSE IF "error" \in DOMAIN val.v
        THEN << <<"nostro_accounts", "error", val.v.error>> >>
        ELSE LET accounts == RecGet(val.v, "accounts", <<>>)
             IN  << <<"nostro_accounts", "heading", RecGet(val.v, "currency_filter", "all")>>,
                    <<"nostro_accounts", "total_count", RecGet(val.v, "total_count", 0)>> >> \o
                 [i \in 1..Len(accounts) |-> <<"nostro_accounts", "account", i, accounts[i]>>]

\* response_parts as built before the fallback sentence
ResponseParts(st) ==
    TransactionParts(st) \o ManagerParts(st) \o DisputeParts(st) \o
    VerificationParts(st) \o NostroCreditParts(st) \o NostroAccountsParts(st)

\* the parts rendered from the field k of the State
PartsOfField(st, k) ==
    IF k = "transactions" THEN TransactionParts(st)
    ELSE IF k = "relationship_manager" THEN ManagerParts(st)
    ELSE IF k = "dispute_details" THEN DisputeParts(st)
    ELSE IF k = "verification_result" THEN VerificationParts(st)
    ELSE IF k = "nostro_credit_result" THEN NostroCreditParts(st)
    ELSE IF k = "nostro_accounts" THEN NostroAccountsParts(st)
    ELSE <<>>

RECURSIVE PartsInDictOrder(_, _)
PartsInDictOrder(st, i) ==
    IF i > Len(st) THEN <<>>
    ELSE PartsOfField(st, st[i][1]) \o PartsInDictOrder(st, i + 1)

\* _format_response rendering the fields in the order the dict holds them
_format_response_dict_order(st) ==
    IF TransactionsRaise(st) \/ ManagerRaise(st)
    THEN [raised |-> TRUE, state |-> st]
    ELSE LET response_parts == PartsInDictOrder(st, 1)
         IN  [raised |-> FALSE,
              state |-> DictSet(st, "final_response",
                                IF response_parts = <<>>
                                THEN << <<"none", NoActionSentence>> >>
                                ELSE response_parts)]

\* _format_response that extends the response already in the State
_format_response_accumulate(st) ==
    IF TransactionsRaise(st) \/ ManagerRaise(st)
    THEN [raised |-> TRUE, state |-> st]
    ELSE LET response_parts == DictGet(st, "final_response", <<>>) \o ResponseParts(st)
         IN  [raised |-> FALSE,
              state |-> DictSet(st, "final_response",
                                IF response_parts = <<>>
                                THEN << <<"none", NoActionSentence>> >>
                                ELSE response_parts)]

\* _format_response without the fallback sentence
_format_response_no_fallback(st) ==
    IF TransactionsRaise(st) \/ ManagerRaise(st)
    THEN [raised |-> TRUE, state |-> st]
    ELSE [raised |-> FALSE, state |-> DictSet(st, "final_response", ResponseParts(st))]

\* _format_response with the fallback sentence appended unconditionally
_format_response_always_fallback(st) ==
    IF TransactionsRaise(st) \/ ManagerRaise(st)
    THEN [raised |-> TRUE, state |-> st]
    ELSE [raised |-> FALSE,
          state |-> DictSet(st, "final_response",
                            Append(ResponseParts(st), <<"none", NoActionSentence>>))]

\* _format_response: the State returned, or the KeyError raised (State untouched)
_format_response(st) ==
    IF TransactionsRaise(st) \/ ManagerRaise(st)
    THEN [raised |-> TRUE, state |-> st]
    ELSE LET response_parts == ResponseParts(st)
         IN  [raised |-> FALSE,
              state |-> DictSet(st, "final_response",
                                IF response_parts = <<>>
                                THEN << <<"none", NoActionSentence>> >>
                                ELSE response_parts)]

(***************************************************************************)
(* The payment graph: process_request and the nodes of _build_graph.  An   *)
(* action is one node together with the edge the executor follows after    *)
(* it.                                                                     *)
(***************************************************************************)
\* initial_state of process_request
InitialState(user_input) ==
    << <<"messages", <<user_input>> >>,
       <<"user_input", user_input>>,
       <<"action_needed", <<>> >>,
       <<"transactions", None>>,
       <<"relationship_manager", None>>,
       <<"dispute_details", None>>,
       <<"verification_result", None>>,
       <<"nostro_credit_result", None>>,
       <<"nostro_accounts", None>>,
       <<"final_response", <<>> >> >>

NoOutcome == [kind |-> "none"]

\* the user ids get_last_transactions_for_user is asked about
UserIds == { DefaultUser, <<"A", "C", "C", "1">> }

PayInit ==
    /\ node = "idle"
    /\ state = <<>>
    /\ visited = <<>>
    /\ outcome = NoOutcome
    /\ user_transaction_memory = <<>>
    /\ recorded = <<>>
    /\ runs = 0

\* process_request(user_input) up to the invocation of the compiled graph
process_request(user_input) ==
    /\ node = "idle"
    /\ runs < MaxRuns
    /\ runs' = runs + 1
    /\ state' = InitialState(user_input)
    /\ node' = "analyze_request"
    /\ visited' = <<>>
    /\ outcome' = NoOutcome
    /\ UNCHANGED <<user_transaction_memory, recorded>>

analyze_request ==
    /\ node = "analyze_request"
    /\ state' = _analyze_request(state)
    /\ node' = EdgeTarget(RouteActionsEdges, _route_actions(state'))
    /\ visited' = Append(visited, "analyze_request")
    /\ UNCHANGED <<outcome, user_transaction_memory, recorded, runs>>

get_transactions ==
    /\ node = "get_transactions"
    /\ \E fetch \in get_high_value_transactions(FetchLimit) :
         LET r == _get_transactions(state, user_transaction_memory, fetch)
             user_id == _get_user_id(state)
         IN  /\ state' = r.state
             /\ user_transaction_memory' = r.memory
             /\ recorded' = IF fetch.raised \/ fetch.value = <<>> THEN recorded
                            ELSE MemoryWith(recorded, user_id,
                                            MemoryAt(recorded, user_id) \o fetch.value)
    /\ node' = EdgeTarget(CheckNextActionEdges, _check_next_action(state'))
    /\ visited' = Append(visited, "get_transactions")
    /\ UNCHANGED <<outcome, runs>>

get_relationship_manager ==
    /\ node = "get_relationship_manager"
    /\ \E rm \in get_relationship_manager_details :
         state' = _get_relationship_manager(state, rm)
    /\ node' = EdgeTarget(CheckDisputeNeededEdges, _check_dispute_needed(state'))
    /\ visited' = Append(visited, "get_relationship_manager")
    /\ UNCHANGED <<outcome, user_transaction_memory, recorded, runs>>

raise_dispute ==
    /\ node = "raise_dispute"
    /\ LET transactions == DictGet(state, "transactions", Some(<<>>))
           target == IF Truthy(transactions) /\ Disputable(transactions.v) # {}
                     THEN FirstDisputable(transactions.v).transaction_id ELSE 0
       IN  \E dispute \in raise_dispute_call(target) :
             state' = _raise_dispute(state, dispute)
    /\ node' = "format_response"
    /\ visited' = Append(visited, "raise_dispute")
    /\ UNCHANGED <<outcome, user_transaction_memory, recorded, runs>>

verify_transaction ==
    /\ node = "verify_transaction"
    /\ \E sample \in get_high_value_transactions(SampleLimit) :
         \E verification \in verify_transaction_credit(VerifyTarget(state, sample)) :
            state' = _verify_transaction(state, sample, verification)
    /\ node' = "format_response"
    /\ visited' = Append(visited, "verify_transaction")
    /\ UNCHANGED <<outcome, user_transaction_memory, recorded, runs>>

check_nostro_credit ==
    /\ node = "check_nostro_credit"
    /\ \E nostro \in check_euro_nostro_credit :
         state' = _check_nostro_credit(state, nostro)
    /\ node' = "format_response"
    /\ visited' = Append(visited, "check_nostro_credit")
    /\ UNCHANGED <<outcome, user_transaction_memory, recorded, runs>>

get_nostro_accounts ==
    /\ node = "get_nostro_accounts"
    /\ \E accounts \in get_nostro_accounts_call :
         state' = _get_nostro_accounts(state, accounts)
    /\ node' = "format_response"
    /\ visited' = Append(visited, "get_nostro_accounts")
    /\ UNCHANGED <<outcome, user_transaction_memory, recorded, runs>>

\* the last node: its edge leads to END, where invoke returns the State and
\* process_request reads result["final_response"]; a KeyError raised by the
\* node propagates out of process_request
format_response ==
    /\ node = "format_response"
    /\ LET r == _format_response(state)
       IN  /\ state' = r.state
           /\ outcome' = IF r.raised THEN [kind |-> "raised", value |-> "KeyError"]
                         ELSE [kind |-> "response",
                               value |-> DictGet(r.state, "final_response", <<>>)]
    /\ node' = "END"
    /\ visited' = Append(visited, "format_response")
    /\ UNCHANGED <<user_transaction_memory, recorded, runs>>

\* the run is over: its State is dropped, the orchestrator waits for a request
process_request_done ==
    /\ node = "END"
    /\ node' = "idle"
    /\ state' = <<>>
    /\ visited' = <<>>
    /\ outcome' = NoOutcome
    /\ UNCHANGED <<user_transaction_memory, recorded, runs>>

\* a call of get_last_transactions_for_user between runs
read_last_transactions ==
    /\ node = "idle"
    /\ \E user_id \in UserIds :
         LET r == get_last_transactions_for_user(user_transaction_memory, user_id)
         IN  /\ user_transaction_memory' = r.memory
             /\ outcome' = [kind |-> "history", user_id |-> user_id, value |-> r.value]
    /\ UNCHANGED <<node, state, visited, recorded, runs>>

FmtIdle ==
    /\ fstate = <<>>
    /\ fprev = <<>>
    /\ fapplied = 0
    /\ fraised = FALSE
    /\ flabel = "none"

RetryIdle ==
    /\ rpc = "idle"
    /\ max_retries = 0
    /\ attempt = 0
    /\ calls = <<>>
    /\ result = None
    /\ returned = None

WeatherIdle ==
    /\ wpc = "idle"
    /\ wstate = <<>>
    /\ cache = <<>>
    /\ weather_calls = 0
    /\ wruns = <<>>
    /\ audit_log = <<>>

\* the threads that call into the process-wide objects at the same time
Threads == {"t1", "t2"}

ThreadsIdle ==
    /\ prun = [t \in Threads |-> [pc |-> "idle"]]
    /\ plog = <<>>
    /\ wrun = [t \in Threads |-> [pc |-> "idle"]]
    /\ wlog = <<>>

ToolIdle ==
    /\ tool_call = None
    /\ tool_response = None

(***************************************************************************)
(* The customer context (customer_manager.py) and the two tools of         *)
(* handle_call_tool that read and change it.  The customers table holds    *)
(* two rows, in created_at order, which is also their order by name.       *)
(***************************************************************************)
Customers ==
    << [customer_id |-> <<"C", "U", "S", "T", "_", "0", "0", "1">>,
        customer_name |-> <<"A", "c", "m", "e", " ", "C", "o", "r", "p">>,
        customer_type |-> "corporate"],
       [customer_id |-> <<"C", "U", "S", "T", "_", "0", "0", "2">>,
        customer_name |-> <<"G", "l", "o", "b", "e", "x">>,
        customer_type |-> "corporate"] >>

\* the rows of high_value_transactions
CustomerTransactions ==
    << [transaction_id |-> 1, customer_id |-> Customers[1].customer_id],
       [transaction_id |-> 2, customer_id |-> Customers[2].customer_id],
       [transaction_id |-> 3, customer_id |-> Customers[1].customer_id] >>

\* the identifiers the tools are called with: an id, a part of a name, a
\* text that matches nothing, an id of no customer, a switch phrase
Identifiers ==
    { <<"C", "U", "S", "T", "_", "0", "0", "2">>,
      <<"a", "c", "m", "e">>,
      <<"n", "o", "b", "o", "d", "y">>,
      <<"C", "U", "S", "T", "_", "9", "9", "9">>,
      <<"c", "u", "s", "t", "o", "m", "e", "r", ":", " ", "G", "l", "o", "b", "e", "x">> }

\* the texts of the user_request argument
UserRequests ==
    { <<"s", "h", "o", "w", " ", "p", "a", "y", "m", "e", "n", "t", "s">>,
      <<"s", "w", "i", "t", "c", "h", " ", "t", "o", " ", "c", "u", "s", "t", "o", "m",
  "e", "r", " ", "a", "c", "m", "e">> }

switch_patterns ==
    << <<"s", "w", "i", "t", "c", "h", " ", "t", "o", " ", "c", "u", "s", "t", "o", "m",
  "e", "r">>,
       <<"c", "h", "a", "n", "g", "e", " ", "t", "o", " ", "c", "u", "s", "t", "o", "m",
  "e", "r">>,
       <<"f", "o", "r", " ", "c", "u", "s", "t", "o", "m", "e", "r">>,
       <<"c", "u", "s", "t", "o", "m", "e", "r", ":">>,
       <<"s", "w", "i", "t", "c", "h", " ", "c", "u", "s", "t", "o", "m", "e", "r">>,
       <<"c", "h", "a", "n", "g", "e", " ", "c", "u", "s", "t", "o", "m", "e", "r">> >>

\* str.find: the lowest 0-based index of p in s (p occurs in s)
Find(s, p) ==
    CHOOSE i \in 0..(Len(s) - Len(p)) :
        /\ SubSeq(s, i + 1, i + Len(p)) = p
        /\ \A j \in 0..(i - 1) : SubSeq(s, j + 1, j + Len(p)) # p

\* str.strip(chars)
StripChars(s, chars) ==
    LET idx == {i \in 1..Len(s) : s[i] \notin chars}
    IN IF idx = {} THEN <<>>
       ELSE SubSeq(s, CHOOSE i \in idx : \A j \in idx : i <= j,
                      CHOOSE i \in idx : \A j \in idx : j <= i)

\* detect_customer_switch_request: the identifier found in the text, or None
detect_customer_switch_request(user_input) ==
    LET user_input_lower == Lower(user_input)
        words_after(k) ==
            LET start_idx == Find(user_input_lower, switch_patterns[k]) + Len(switch_patterns[k])
            IN  Split(StripChars(SubSeq(user_input, start_idx + 1, Len(user_input)),
                                 {" ", "\t", "\n", "\r"}))
        found == { k \in 1..Len(switch_patterns) :
                      /\ Contains(user_input_lower, switch_patterns[k])
                      /\ words_after(k) # <<>> }
        words == Split(user_input)
        ids == { i \in 1..Len(words) :
                    StartsWith(words[i], <<"C", "U", "S", "T", "_">>) /\ Len(words[i]) > 5 }
    IN  IF found # {}
        THEN Some(StripChars(words_after(CHOOSE k \in found : \A j \in found : k <= j)[1],
                             {"\"", ":", ","}))
        ELSE IF ids # {}
        THEN Some(words[CHOOSE i \in ids : \A j \in ids : i <= j])
        ELSE None

\* LOWER(customer_name) LIKE LOWER('%identifier%'); '_' in the pattern stands
\* for any one character (no identifier of the model holds '%')
LikeContains(name, identifier) ==
    LET n == Lower(name)
        p == Lower(identifier)
    IN  \E i \in 0..(Len(n) - Len(p)) :
            \A j \in 1..Len(p) : p[j] = "_" \/ n[i + j] = p[j]

\* get_current_customer
get_current_customer(id, cch) ==
    IF ~id.null /\ id.v \in DOMAIN cch THEN Some(cch[id.v]) ELSE None

\* switch_customer: the value returned and the fields afterwards; db_ok is
\* whether the storage lookup worked (an exception is logged and gives False)
switch_customer(id, cch, identifier, db_ok) ==
    LET by_id == { i \in 1..Len(Customers) : Customers[i].customer_id = identifier }
        by_name == { i \in 1..Len(Customers) :
                        LikeContains(Customers[i].customer_name, identifier) }
        rows == IF by_id # {} THEN by_id ELSE by_name
        unchanged == [value |-> FALSE, current_customer_id |-> id, customer_cache |-> cch]
    IN  IF ~db_ok \/ rows = {} THEN unchanged
        ELSE LET row == Customers[CHOOSE i \in rows : \A j \in rows : i <= j]
             IN  [value |-> TRUE,
                  current_customer_id |-> Some(row.customer_id),
                  customer_cache |->
                      [k \in DOMAIN cch \cup {row.customer_id} |->
                          IF k = row.customer_id THEN row ELSE cch[k]]]

\* payment_service.get_transactions(customer_id=customer_id): the rows of the
\* customer id given, or of the current customer when none is given
PaymentAPIService_get_transactions(customer_id, current_customer, db_ok) ==
    IF customer_id = <<>> /\ current_customer.null THEN Raised
    ELSE IF ~db_ok THEN Raised
    ELSE LET queried == IF customer_id = <<>> THEN current_customer.v.customer_id
                        ELSE customer_id
         IN  Returned(SelectSeq(CustomerTransactions,
                                LAMBDA row : row.customer_id = queried))

\* arguments.get(k) or ''
ArgText(arguments, k) == IF k \in DOMAIN arguments THEN arguments[k] ELSE <<>>

\* the beginning of the try block of handle_call_tool: a customer switch
\* found in user_request or customer_identifier is carried out
AutoSwitch(id, cch, arguments, db_ok) ==
    LET user_input == IF ArgText(arguments, "user_request") # <<>>
                      THEN ArgText(arguments, "user_request")
                      ELSE ArgText(arguments, "customer_identifier")
        customer_switch == IF user_input = <<>> THEN None
                           ELSE detect_customer_switch_request(user_input)
    IN  IF customer_switch.null \/ customer_switch.v = <<>>
        THEN [value |-> FALSE, current_customer_id |-> id, customer_cache |-> cch]
        ELSE switch_customer(id, cch, customer_switch.v, db_ok)

\* __init__ with the first customer loaded as the default
CustomerIdle ==
    /\ current_customer_id = Some(Customers[1].customer_id)
    /\ customer_cache = [k \in {Customers[1].customer_id} |-> Customers[1]]
    /\ customer_call = None
    /\ customer_response = None

Init == PayInit /\ FmtIdle /\ RetryIdle /\ WeatherIdle /\ ThreadsIdle /\ ToolIdle /\ CustomerIdle

Next ==
    \/ (\E user_input \in RequestTexts : process_request(user_input))
          /\ UNCHANGED <<fmtVars, retryVars, weatherVars, threadVars, toolVars, custVars>>
    \/ analyze_request /\ UNCHANGED <<fmtVars, retryVars, weatherVars, threadVars, toolVars, custVars>>
    \/ get_transactions /\ UNCHANGED <<fmtVars, retryVars, weatherVars, threadVars, toolVars, custVars>>
    \/ get_relationship_manager /\ UNCHANGED <<fmtVars, retryVars, weatherVars, threadVars, toolVars, custVars>>
    \/ raise_dispute /\ UNCHANGED <<fmtVars, retryVars, weatherVars, threadVars, toolVars, custVars>>
    \/ verify_transaction /\ UNCHANGED <<fmtVars, retryVars, weatherVars, threadVars, toolVars, custVars>>
    \/ check_nostro_credit /\ UNCHANGED <<fmtVars, retryVars, weatherVars, threadVars, toolVars, custVars>>
    \/ get_nostro_accounts /\ UNCHANGED <<fmtVars, retryVars, weatherVars, threadVars, toolVars, custVars>>
    \/ format_response /\ UNCHANGED <<fmtVars, retryVars, weatherVars, threadVars, toolVars, custVars>>
    \/ process_request_done /\ UNCHANGED <<fmtVars, retryVars, weatherVars, threadVars, toolVars, custVars>>
    \/ read_last_transactions /\ UNCHANGED <<fmtVars, retryVars, weatherVars, threadVars, toolVars, custVars>>

Spec == Init /\ [][Next]_vars

\* the arguments of a call: idkey and user_request, each given or not
CustomerArguments(idkey) ==
    { a \in UNION { [ks -> Identifiers \cup UserRequests] :
                       ks \in SUBSET {idkey, "user_request"} } :
         /\ idkey \in DOMAIN a => a[idkey] \in Identifiers
         /\ "user_request" \in DOMAIN a => a["user_request"] \in UserRequests }

\* handle_call_tool("switch_customer", arguments); db[i] is whether the i-th
\* storage lookup of the call works
call_switch_customer ==
    \E arguments \in CustomerArguments("customer_identifier"), db \in [1..2 -> BOOLEAN] :
        LET auto == AutoSwitch(current_customer_id, customer_cache, arguments, db[1])
            customer_identifier == ArgText(arguments, "customer_identifier")
            sw == switch_customer(auto.current_customer_id, auto.customer_cache,
                                  customer_identifier, db[2])
            after == IF customer_identifier = <<>> THEN auto ELSE sw
            current_customer == get_current_customer(after.current_customer_id,
                                                     after.customer_cache)
        IN  /\ current_customer_id' = after.current_customer_id
            /\ customer_cache' = after.customer_cache
            /\ customer_call' =
                  Some([name |-> "switch_customer",
                        arguments |-> arguments,
                        lookup_failed |-> ~db[2],
                        before |-> [current_customer_id |-> current_customer_id,
                                    customer_cache |-> customer_cache]])
            /\ customer_response' =
                  IF customer_identifier = <<>>
                  THEN Some([status |-> "error",
                             message |-> "customer_identifier is required"])
                  ELSE IF sw.value
                  THEN IF ~current_customer.null
                       THEN Some([status |-> "success", data |-> current_customer.v])
                       ELSE Some([status |-> "error",
                                  message |-> "Failed to retrieve customer after switch"])
                  ELSE Some([status |-> "error", message |-> "Customer not found"])

\* handle_call_tool("get_recent_transactions", arguments)
call_get_recent_transactions ==
    \E arguments \in CustomerArguments("customer_id"), db \in [1..3 -> BOOLEAN] :
        LET auto == AutoSwitch(current_customer_id, customer_cache, arguments, db[1])
            customer_id == ArgText(arguments, "customer_id")
            after == IF customer_id # <<>>
                     THEN switch_customer(auto.current_customer_id, auto.customer_cache,
                                          customer_id, db[2])
                     ELSE auto
            current_customer == get_current_customer(after.current_customer_id,
                                                     after.customer_cache)
            fetched == PaymentAPIService_get_transactions(customer_id, current_customer, db[3])
        IN  /\ current_customer_id' = after.current_customer_id
            /\ customer_cache' = after.customer_cache
            /\ customer_call' =
                  Some([name |-> "get_recent_transactions",
                        arguments |-> arguments,
                        lookup_failed |-> ~db[2],
                        before |-> [current_customer_id |-> current_customer_id,
                                    customer_cache |-> customer_cache]])
            /\ customer_response' =
                  IF fetched.raised
                  THEN Some([status |-> "error", message |-> "Error executing"])
                  ELSE Some([status |-> "success",
                             data |-> fetched.value,
                             customer |-> IF current_customer.null
                                          THEN <<"U", "n", "k", "n", "o", "w", "n">>
                                          ELSE current_customer.v.customer_name])

NextCustomer ==
    \/ call_switch_customer
          /\ UNCHANGED <<payVars, fmtVars, retryVars, weatherVars, threadVars, toolVars>>
    \/ call_get_recent_transactions
          /\ UNCHANGED <<payVars, fmtVars, retryVars, weatherVars, threadVars, toolVars>>

SpecCustomer == Init /\ [][NextCustomer]_vars


\* runs of requests that name accounts: the nodes such a run executes
NextAccounts ==
    \/ (\E user_input \in AccountTexts : process_request(user_input))
          /\ UNCHANGED <<fmtVars, retryVars, weatherVars, threadVars, toolVars, custVars>>
    \/ analyze_request /\ UNCHANGED <<fmtVars, retryVars, weatherVars, threadVars, toolVars, custVars>>
    \/ get_transactions /\ UNCHANGED <<fmtVars, retryVars, weatherVars, threadVars, toolVars, custVars>>
    \/ format_response /\ UNCHANGED <<fmtVars, retryVars, weatherVars, threadVars, toolVars, custVars>>
    \/ process_request_done /\ UNCHANGED <<fmtVars, retryVars, weatherVars, threadVars, toolVars, custVars>>
    \/ read_last_transactions /\ UNCHANGED <<fmtVars, retryVars, weatherVars, threadVars, toolVars, custVars>>

SpecAccounts == Init /\ [][NextAccounts]_vars

\* the nodes _build_graph adds to the graph
RunNodes == {"analyze_request", "get_transactions", "get_relationship_manager",
             "raise_dispute", "verify_transaction", "check_nostro_credit",
             "get_nostro_accounts", "format_response"}

\* compiled_graph.invoke: the node the run stands at is executed
invoke_step ==
    \/ analyze_request
    \/ get_transactions
    \/ get_relationship_manager
    \/ raise_dispute
    \/ verify_transaction
    \/ check_nostro_credit
    \/ get_nostro_accounts
    \/ format_response

\* invoke is a synchronous call: a run standing at a node executes it.  This
\* is weak fairness of invoke_step, WF_vars(invoke_step), written out with
\* ENABLED invoke_step as the state predicate it equals: a node's action has
\* no guard but the run standing at that node.
SpecLive ==
    /\ Spec
    /\ \/ []<>(node \notin RunNodes)
       \/ []<><<invoke_step /\ UNCHANGED <<fmtVars, retryVars, weatherVars, threadVars, toolVars, custVars>>>>_vars

(***************************************************************************)
(* The routers and the aggregator on arbitrary States: a State is built by *)
(* appending tags to action_needed, or by writing the optional result      *)
(* fields, in any order, and the function is applied to it.                *)
(***************************************************************************)
ActionTags == {"get_transactions", "raise_dispute", "get_rm", "verify_transaction",
               "check_nostro", "get_nostro_accounts"}

\* a manager record of the shape _format_response reads (models.RelationshipManager)
ManagerWithBranch ==
    [manager_id |-> "RM001",
     name |-> "Sarah Johnson",
     email |-> "sarah.johnson@bank.com",
     phone |-> "+1-555-0101",
     branch |-> "Downtown",
     specialization |-> <<"Corporate Banking">>,
     experience_years |-> 12]

\* the values a step node can leave in an optional field
FieldValues(k) ==
    IF k = "transactions"
    THEN { Some(<<>>), Some(<<Txn(1), Txn(2)>>) }
    ELSE IF k = "relationship_manager"
    THEN { None, Some(ManagerWithBranch), Some(ManagerRecord) }
    ELSE IF k = "dispute_details"
    THEN { Some([error |-> "No transactions available to dispute"]),
           Some([dispute_id |-> "DSP001", transaction_id |-> 2, status |-> "open",
                 assigned_manager |-> [name |-> "Sarah Johnson",
                                       email |-> "sarah.johnson@bank.com"]]) }
    ELSE IF k = "verification_result"
    THEN { Some([transaction_id |-> 2, is_credited |-> TRUE,
                 verification_status |-> "verified",
                 notes |-> "Auto-generated verification record",
                 credited_amount |-> 300000]) }
    ELSE IF k = "nostro_credit_result"
    THEN { Some([status |-> "success", message |-> "Euro nostro account checked"]) }
    ELSE { Some([accounts |-> <<>>, total_count |-> 0, currency_filter |-> "EUR"]) }

OptionalFields == {"transactions", "relationship_manager", "dispute_details",
                   "verification_result", "nostro_credit_result", "nostro_accounts"}

\* actions.append(tag), for a tag not yet in the list
append_action(tag) ==
    /\ ~InList(tag, DictGet(fstate, "action_needed", <<>>))
    /\ fstate' = DictSet(fstate, "action_needed",
                         Append(DictGet(fstate, "action_needed", <<>>), tag))
    /\ flabel' = "none"
    /\ UNCHANGED <<fprev, fapplied, fraised>>

\* _route_actions(state)
route_actions ==
    /\ flabel = "none"
    /\ flabel' = _route_actions(fstate)
    /\ UNCHANGED <<fstate, fprev, fapplied, fraised>>

NextRoute ==
    \/ (\E tag \in ActionTags : append_action(tag))
          /\ UNCHANGED <<payVars, retryVars, weatherVars, threadVars, toolVars, custVars>>
    \/ route_actions /\ UNCHANGED <<payVars, retryVars, weatherVars, threadVars, toolVars, custVars>>

SpecRoute == Init /\ [][NextRoute]_vars

\* state[k] = v by a step node, before the aggregator runs
write_field(k, v) ==
    /\ fapplied = 0
    /\ ~DictHas(fstate, k)
    /\ fstate' = DictSet(fstate, k, v)
    /\ UNCHANGED <<fprev, fapplied, fraised, flabel>>

\* _format_response(state); a KeyError leaves the State as it was
apply_format_response ==
    /\ fapplied < MaxApply
    /\ LET r == _format_response(fstate)
       IN  /\ fstate' = r.state
           /\ fraised' = r.raised
    /\ fprev' = fstate
    /\ fapplied' = fapplied + 1
    /\ UNCHANGED flabel

NextFormat ==
    \/ (\E k \in OptionalFields : \E v \in FieldValues(k) : write_field(k, v))
          /\ UNCHANGED <<payVars, retryVars, weatherVars, threadVars, toolVars, custVars>>
    \/ apply_format_response /\ UNCHANGED <<payVars, retryVars, weatherVars, threadVars, toolVars, custVars>>

SpecFormat == Init /\ [][NextFormat]_vars

(***************************************************************************)
(* RetryAgent (langgraph_multi_agent.py).  A step result is a dict whose   *)
(* values are strings or other values: [str |-> TRUE, v |-> text] or       *)
(* [str |-> FALSE, v |-> value].                                           *)
(***************************************************************************)
\* the string literals of langgraph_multi_agent.py, as sequences of characters
Lit ==
    [
      MarkerUnable |->
        <<"U", "n", "a", "b", "l", "e">>,
      MarkerNo |->
        <<"N", "o">>,
      TextSunnyDavis |->
        <<"S", "u", "n", "n", "y", " ", "i", "n", " ", "D", "a", "v", "i", "s">>,
      TextNoLocation |->
        <<"N", "o", " ", "l", "o", "c", "a", "t", "i", "o", "n", " ", "p", "r", "o", "v",
          "i", "d", "e", "d", ".">>,
      TextUnableAlerts |->
        <<"U", "n", "a", "b", "l", "e", " ", "t", "o", " ", "f", "e", "t", "c", "h", " ",
          "a", "l", "e", "r", "t", "s", " ", "o", "r", " ", "n", "o", " ", "a", "l", "e",
          "r", "t", "s", " ", "f", "o", "u", "n", "d", ".">>,
      TextSunnyNorfolk |->
        <<"S", "u", "n", "n", "y", " ", "i", "n", " ", "N", "o", "r", "f", "o", "l", "k">>,
      TextSnow |->
        <<"s", "n", "o", "w", ",", " ", "n", "o", " ", "w", "i", "n", "d">>,
      TextNoAlerts |->
        <<"N", "o", " ", "a", "c", "t", "i", "v", "e", " ", "a", "l", "e", "r", "t", "s",
          " ", "f", "o", "r", " ", "t", "h", "i", "s", " ", "s", "t", "a", "t", "e", ".">>,
      FallbackLatitude |->
        <<"3", "7", ".", "7", "7", "4", "9">>,
      FallbackLongitude |->
        <<"-", "1", "2", "2", ".", "4", "1", "9", "4">>,
      IntentWeather |->
        <<"w", "e", "a", "t", "h", "e", "r">>,
      IntentActivity |->
        <<"a", "c", "t", "i", "v", "i", "t", "y">>,
      IntentBooking |->
        <<"b", "o", "o", "k", "i", "n", "g">>,
      WordSuggest |->
        <<"s", "u", "g", "g", "e", "s", "t">>,
      WordBook |->
        <<"b", "o", "o", "k">>,
      WordPlayground |->
        <<"p", "l", "a", "y", "g", "r", "o", "u", "n", "d">>,
      WordTomorrow |->
        <<"t", "o", "m", "o", "r", "r", "o", "w">>,
      WordToday |->
        <<"t", "o", "d", "a", "y">>,
      DateTomorrow |->
        <<"2", "0", "2", "5", "-", "0", "8", "-", "0", "6">>,
      DateToday |->
        <<"2", "0", "2", "5", "-", "0", "8", "-", "0", "5">>,
      SunnyIn |->
        <<"S", "u", "n", "n", "y", " ", "i", "n", " ">>,
      WordSunny |->
        <<"S", "u", "n", "n", "y">>,
      WordClear |->
        <<"C", "l", "e", "a", "r">>,
      WordRain |->
        <<"R", "a", "i", "n">>,
      WordShowers |->
        <<"S", "h", "o", "w", "e", "r", "s">>,
      PlaygroundBooked |->
        <<"P", "l", "a", "y", "g", "r", "o", "u", "n", "d", " ", "b", "o", "o", "k", "e",
          "d", "!">>,
      PlaygroundNotBooked |->
        <<"P", "l", "a", "y", "g", "r", "o", "u", "n", "d", " ", "n", "o", "t", " ", "b",
          "o", "o", "k", "e", "d", " ", "d", "u", "e", " ", "t", "o", " ", "w", "e", "a",
          "t", "h", "e", "r", ".">>,
      OutdoorActivities |->
        <<"O", "u", "t", "d", "o", "o", "r", " ", "a", "c", "t", "i", "v", "i", "t", "i",
          "e", "s", ":", " ", "s", "o", "c", "c", "e", "r", ",", " ", "t", "e", "n", "n",
          "i", "s", ",", " ", "p", "i", "c", "n", "i", "c", ".">>,
      IndoorActivities |->
        <<"I", "n", "d", "o", "o", "r", " ", "a", "c", "t", "i", "v", "i", "t", "i", "e",
          "s", ":", " ", "b", "o", "a", "r", "d", " ", "g", "a", "m", "e", "s", ",", " ",
          "r", "e", "a", "d", "i", "n", "g", ",", " ", "m", "o", "v", "i", "e", "s", ".">>,
      OtherActivities |->
        <<"C", "h", "e", "c", "k", " ", "l", "o", "c", "a", "l", " ", "e", "v", "e", "n",
          "t", "s", " ", "o", "r", " ", "t", "r", "y", " ", "c", "r", "e", "a", "t", "i",
          "v", "e", " ", "i", "n", "d", "o", "o", "r", " ", "h", "o", "b", "b", "i", "e",
          "s", ".">>,
      TextNone |->
        <<"N", "o", "n", "e">>,
      LabelLocation |->
        <<"L", "o", "c", "a", "t", "i", "o", "n", ":", " ">>,
      LabelWeather |->
        <<"W", "e", "a", "t", "h", "e", "r", ":", " ">>,
      LabelActivities |->
        <<"A", "c", "t", "i", "v", "i", "t", "i", "e", "s", ":", " ">>,
      LabelPlayground |->
        <<"P", "l", "a", "y", "g", "r", "o", "u", "n", "d", ":", " ">>,
      LabelAlerts |->
        <<"A", "l", "e", "r", "t", "s", ":", " ">>,
      RainInDavis |->
        <<"R", "a", "i", "n", " ", "i", "n", " ", "D", "a", "v", "i", "s">>,
      QuerySacramento |->
        <<"W", "h", "a", "t", "'", "s", " ", "t", "h", "e", " ", "w", "e", "a", "t", "h",
          "e", "r", " ", "i", "n", " ", "S", "a", "c", "r", "a", "m", "e", "n", "t", "o",
          "?">>,
      QuerySacramentoCA |->
        <<"w", "e", "a", "t", "h", "e", "r", " ", "i", "n", " ", "S", "a", "c", "r", "a",
          "m", "e", "n", "t", "o", ",", " ", "C", "A">>,
      QueryTomorrow |->
        <<"w", "e", "a", "t", "h", "e", "r", " ", "t", "o", "m", "o", "r", "r", "o", "w">>,
      QueryBookDavis |->
        <<"b", "o", "o", "k", " ", "i", "n", " ", "D", "a", "v", "i", "s", " ", "t", "o",
          "d", "a", "y">>
    ]

Str(text) == [str |-> TRUE, v |-> text]
NonStr(x) == [str |-> FALSE, v |-> x]


\* the results the wrapped step may give, one of them on each invocation
AgentResults ==
    { << <<"weather", Str(Lit.TextSunnyDavis)>> >>,
      << <<"weather", Str(Lit.TextNoLocation)>> >>,
      << <<"alerts", Str(Lit.TextUnableAlerts)>> >>,
      << <<"weather", Str(Lit.TextSunnyNorfolk)>> >>,
      << <<"weather", Str(Lit.TextSnow)>> >>,
      << <<"count", NonStr(0)>> >>,
      << <<"weather", Str(Lit.TextSunnyDavis)>>, <<"alerts", Str(Lit.TextNoAlerts)>> >>,
      << <<"weather", Str(Lit.TextSunnyDavis)>>,
         <<"activities", NonStr(<<Lit.TextNoLocation, Lit.TextUnableAlerts>>)>> >> }

\* a test that looks for 'Unable' only
IsFailure_unable_only(res) ==
    \E i \in 1..Len(res) :
        /\ res[i][2].str
        /\ Contains(res[i][2].v, Lit.MarkerUnable)

\* the test of RetryAgent.run: some string value contains 'Unable' or 'No'
IsFailure(res) ==
    \E i \in 1..Len(res) :
        /\ res[i][2].str
        /\ (Contains(res[i][2].v, Lit.MarkerUnable) \/ Contains(res[i][2].v, Lit.MarkerNo))

\* for attempt in range(n): one more iteration after k iterations
RangeHasNext_inclusive(k, n) == k <= n

RangeHasNext(k, n) == k < n

\* RetryAgent(agent, max_retries=n) followed by the call of run
RetryAgent_run(n) ==
    /\ rpc = "idle"
    /\ rpc' = "loop"
    /\ max_retries' = n
    /\ attempt' = 0
    /\ calls' = <<>>
    /\ result' = None
    /\ returned' = None

\* one iteration of the loop: invoke the step, classify, return on success
retry_attempt ==
    /\ rpc = "loop"
    /\ RangeHasNext(attempt, max_retries)
    /\ attempt' = attempt + 1
    /\ \E res \in AgentResults :
         /\ calls' = Append(calls, res)
         /\ result' = Some(res)
         /\ IF ~IsFailure(res)
            THEN rpc' = "done" /\ returned' = Some(res)
            ELSE rpc' = "loop" /\ returned' = returned
    /\ UNCHANGED max_retries

\* the loop is over: return result, which is unbound when no iteration ran
retry_exhausted ==
    /\ rpc = "loop"
    /\ ~RangeHasNext(attempt, max_retries)
    /\ IF result.null
       THEN rpc' = "raised" /\ returned' = returned
       ELSE rpc' = "done" /\ returned' = result
    /\ UNCHANGED <<max_retries, attempt, calls, result>>

NextRetry ==
    \/ (\E n \in 0..MaxRetries : RetryAgent_run(n))
          /\ UNCHANGED <<payVars, fmtVars, weatherVars, threadVars, toolVars, custVars>>
    \/ retry_attempt /\ UNCHANGED <<payVars, fmtVars, weatherVars, threadVars, toolVars, custVars>>
    \/ retry_exhausted /\ UNCHANGED <<payVars, fmtVars, weatherVars, threadVars, toolVars, custVars>>

SpecRetry == Init /\ [][NextRetry]_vars

(***************************************************************************)
(* run_multi_agent and its steps (langgraph_multi_agent.py).  The values   *)
(* of the dict state are strings, floats or None; a float is kept as the   *)
(* text str() gives for it.                                                *)
(***************************************************************************)
WStr(text) == [kind |-> "str", v |-> text]
WFloat(text) == [kind |-> "float", v |-> text]
WNone == [kind |-> "none", v |-> <<>>]

\* truth value of a string or None
WTruthy(val) == val.kind = "str" /\ val.v # <<>>

DEFAULT_LOCATION ==
    <<"S", "a", "c", "r", "a", "m", "e", "n", "t", "o", ",", " ", "C", "A">>
DEFAULT_LATITUDE ==
    <<"3", "8", ".", "5", "8", "1", "6">>
DEFAULT_LONGITUDE ==
    <<"-", "1", "2", "1", ".", "4", "9", "4", "4">>

Newline == <<"\n">>

\* what an f-string prints for a value
Format(val) == IF val.kind = "none" THEN Lit.TextNone ELSE val.v

\* the character class [A-Za-z ,]
InLocationClass(c) ==
    \/ \E k \in 1..Len(UpperCase) : UpperCase[k] = c \/ LowerCase[k] = c
    \/ c \in {" ", ","}

Whitespace == {" ", "\t", "\n", "\r"}

\* str.strip()
Strip(s) ==
    LET idx == {i \in 1..Len(s) : s[i] \notin Whitespace}
    IN IF idx = {} THEN <<>>
       ELSE SubSeq(s, CHOOSE i \in idx : \A j \in idx : i <= j,
                      CHOOSE i \in idx : \A j \in idx : j <= i)

\* re.search(r'in ([A-Za-z ,]+)', query): group 1 of the leftmost match
SearchLocation(query) ==
    LET starts == {i \in 1..(Len(query) - 3) :
                       /\ SubSeq(query, i, i + 2) = <<"i", "n", " ">>
                       /\ InLocationClass(query[i + 3])}
    IN IF starts = {} THEN None
       ELSE LET i == CHOOSE a \in starts : \A b \in starts : a <= b
                ends == {j \in (i + 3)..Len(query) :
                             \A k \in (i + 3)..j : InLocationClass(query[k])}
                e == CHOOSE a \in ends : \A b \in ends : b <= a
            IN Some(SubSeq(query, i + 3, e))

QueryParserAgent_run(st) ==
    LET query == DictGet(st, "query", WStr(<<>>))
    IN IF ~WTruthy(query)
       THEN << <<"location_name", WStr(DEFAULT_LOCATION)>>,
               <<"intent", WStr(Lit.IntentWeather)>>,
               <<"query", WStr(<<>>)>> >>
       ELSE LET match == SearchLocation(query.v)
                location == IF match.null THEN DEFAULT_LOCATION ELSE Strip(match.v)
                intent == IF Contains(query.v, Lit.IntentActivity) \/ Contains(query.v, Lit.WordSuggest)
                          THEN Lit.IntentActivity
                          ELSE IF Contains(query.v, Lit.WordBook) \/ Contains(query.v, Lit.WordPlayground)
                               THEN Lit.IntentBooking
                               ELSE Lit.IntentWeather
            IN << <<"location_name", WStr(location)>>,
                  <<"intent", WStr(intent)>>,
                  <<"query", query>> >>

TimeAgent_run(st) ==
    LET query == DictGet(st, "query", WStr(<<>>)).v
    IN IF Contains(query, Lit.WordTomorrow)
       THEN DictSet(st, "date", WStr(Lit.DateTomorrow))
       ELSE DictSet(st, "date", WStr(Lit.DateToday))

\* {"latitude": .., "longitude": .., **state}
GeocodeAgent_run(st) ==
    LET location_name == DictGet(st, "location_name", WStr(DEFAULT_LOCATION)).v
        coords == IF Lower(location_name) = Lower(DEFAULT_LOCATION)
                  THEN << <<"latitude", WFloat(DEFAULT_LATITUDE)>>,
                          <<"longitude", WFloat(DEFAULT_LONGITUDE)>> >>
                  ELSE << <<"latitude", WFloat(Lit.FallbackLatitude)>>,
                          <<"longitude", WFloat(Lit.FallbackLongitude)>> >>
        RECURSIVE Merge(_, _)
        Merge(d, i) == IF i > Len(st) THEN d
                       ELSE Merge(DictSet(d, st[i][1], st[i][2]), i + 1)
    IN Merge(coords, 1)

\* f"{state.get('latitude')},{state.get('longitude')},{state.get('date')}"
CacheKey(st) ==
    Format(DictGet(st, "latitude", WNone)) \o <<",">> \o
    Format(DictGet(st, "longitude", WNone)) \o <<",">> \o
    Format(DictGet(st, "date", WNone))

CacheAgent_run(st, c) ==
    LET key == CacheKey(st)
    IN IF DictHas(c, key)
       THEN DictSet(st, "cached_weather", DictGet(c, key, WNone))
       ELSE DictSet(st, "cached_weather", WNone)

update_cache(c, key, value) == DictSet(c, key, value)

\* location = state.get("location_name"): the step reading the field the
\* query parser writes
WeatherAgent_run_location_name(st) ==
    LET location == DictGet(st, "location_name", WNone)
    IN IF ~WTruthy(location)
       THEN << <<"weather", WStr(Lit.TextNoLocation)>> >>
       ELSE << <<"weather", WStr(Lit.SunnyIn \o location.v)>> >>

WeatherAgent_run(st) ==
    LET location == DictGet(st, "location", WNone)
    IN IF ~WTruthy(location)
       THEN << <<"weather", WStr(Lit.TextNoLocation)>> >>
       ELSE << <<"weather", WStr(Lit.SunnyIn \o location.v)>> >>

WeatherText(st) == DictGet(st, "weather", WStr(<<>>)).v

PlaygroundBookingAgent_run(st) ==
    IF Contains(WeatherText(st), Lit.WordSunny) \/ Contains(WeatherText(st), Lit.WordClear)
    THEN DictSet(st, "playground_booking", WStr(Lit.PlaygroundBooked))
    ELSE DictSet(st, "playground_booking", WStr(Lit.PlaygroundNotBooked))

ResponseFormatterAgent_run(st) ==
    << <<"response",
         WStr(Lit.LabelLocation \o Format(DictGet(st, "location_name", WNone)) \o Newline \o
              Lit.LabelWeather \o Format(DictGet(st, "weather", WNone)) \o Newline \o
              Lit.LabelActivities \o Format(DictGet(st, "activities", WNone)) \o Newline \o
              Lit.LabelPlayground \o Format(DictGet(st, "playground", WNone)) \o Newline \o
              Lit.LabelAlerts \o Format(DictGet(st, "alerts", WNone)))>> >>

\* the requests run_multi_agent is called with
Queries == {Lit.QuerySacramento, Lit.QuerySacramentoCA, Lit.QueryTomorrow, Lit.QueryBookDavis, <<>>}

\* keys and values another caller of cache_agent.update_cache stores
PresetKeys == { DEFAULT_LATITUDE \o <<",">> \o DEFAULT_LONGITUDE \o <<",">> \o Lit.DateToday,
                Lit.FallbackLatitude \o <<",">> \o Lit.FallbackLongitude \o <<",">> \o Lit.DateToday }
PresetValues == {WStr(Lit.TextSunnyDavis), WStr(Lit.RainInDavis)}

\* audit_log.append((label, state)) without dict(): the entries written
\* after steps that change state in place hold one object and show its
\* current contents
Logged_same_object(log, label, st) ==
    [i \in 1..(Len(log) + 1) |-> <<IF i <= Len(log) THEN log[i][1] ELSE label, st>>]

Logged(log, label, st) == Append(log, <<label, st>>)

\* the entry of audit_log a step wrote
AuditEntry(log, label) == log[CHOOSE i \in 1..Len(log) : log[i][1] = label][2]

run_multi_agent(query) ==
    /\ wpc = "idle"
    /\ Len(wruns) < MaxWeatherRuns
    /\ wstate' = << <<"query", WStr(query)>> >>
    /\ audit_log' = <<>>
    /\ weather_calls' = 0
    /\ wpc' = "query_parser"
    /\ UNCHANGED <<cache, wruns>>

query_parser ==
    /\ wpc = "query_parser"
    /\ wstate' = QueryParserAgent_run(wstate)
    /\ audit_log' = Logged(audit_log, "query_parser", wstate')
    /\ wpc' = "time"
    /\ UNCHANGED <<cache, weather_calls, wruns>>

time ==
    /\ wpc = "time"
    /\ wstate' = TimeAgent_run(wstate)
    /\ audit_log' = Logged(audit_log, "time", wstate')
    /\ wpc' = "geocode"
    /\ UNCHANGED <<cache, weather_calls, wruns>>

geocode ==
    /\ wpc = "geocode"
    /\ wstate' = GeocodeAgent_run(wstate)
    /\ audit_log' = Logged(audit_log, "geocode", wstate')
    /\ wpc' = "cache"
    /\ UNCHANGED <<cache, weather_calls, wruns>>

cache_lookup ==
    /\ wpc = "cache"
    /\ wstate' = CacheAgent_run(wstate, cache)
    /\ audit_log' = Logged(audit_log, "cache", wstate')
    /\ wpc' = "weather"
    /\ UNCHANGED <<cache, weather_calls, wruns>>

\* if state.get("cached_weather"): the weather step is skipped
weather_cache_hit ==
    /\ wpc = "weather"
    /\ WTruthy(DictGet(wstate, "cached_weather", WNone))
    /\ wstate' = DictSet(wstate, "weather", DictGet(wstate, "cached_weather", WNone))
    /\ audit_log' = Logged(audit_log, "weather (cache hit)", wstate')
    /\ wpc' = "playground_booking"
    /\ UNCHANGED <<cache, weather_calls, wruns>>

\* else: the weather step's return value replaces state, then the key is
\* formatted from state and the cache is updated
weather_api ==
    /\ wpc = "weather"
    /\ ~WTruthy(DictGet(wstate, "cached_weather", WNone))
    /\ wstate' = WeatherAgent_run(wstate)
    /\ weather_calls' = weather_calls + 1
    /\ cache' = update_cache(cache, CacheKey(wstate'), DictGet(wstate', "weather", WNone))
    /\ audit_log' = Logged(audit_log, "weather (API)", wstate')
    /\ wpc' = "playground_booking"
    /\ UNCHANGED wruns

playground_booking ==
    /\ wpc = "playground_booking"
    /\ LET weather == WeatherText(wstate)
           booked == PlaygroundBookingAgent_run(wstate)
       IN IF Contains(weather, Lit.WordSunny) \/ Contains(weather, Lit.WordClear)
          THEN /\ wstate' = DictSet(booked, "activities", WStr(Lit.OutdoorActivities))
               /\ audit_log' = Logged(audit_log, "playground_booking (good)", wstate')
          ELSE IF Contains(weather, Lit.WordRain) \/ Contains(weather, Lit.WordShowers)
               THEN /\ wstate' = DictSet(booked, "activities", WStr(Lit.IndoorActivities))
                    /\ audit_log' = Logged(audit_log, "playground_booking (bad)", wstate')
               ELSE /\ wstate' = DictSet(booked, "activities", WStr(Lit.OtherActivities))
                    /\ audit_log' = Logged(audit_log, "playground_booking (other)", wstate')
    /\ wpc' = "response_formatter"
    /\ UNCHANGED <<cache, weather_calls, wruns>>

response_formatter ==
    /\ wpc = "response_formatter"
    /\ wstate' = ResponseFormatterAgent_run(wstate)
    /\ audit_log' = Logged(audit_log, "response_formatter", wstate')
    /\ wpc' = "return"
    /\ UNCHANGED <<cache, weather_calls, wruns>>

\* return state.get("response", state); the finished run is put on record
run_multi_agent_return ==
    /\ wpc = "return"
    /\ wruns' = Append(wruns,
          [key |-> CacheKey(AuditEntry(audit_log, "cache")),
           in_cache |-> DictGet(AuditEntry(audit_log, "cache"), "cached_weather", WNone) # WNone,
           branch |-> audit_log[5][1],
           weather_calls |-> weather_calls,
           weather |-> DictGet(audit_log[5][2], "weather", WNone),
           cache |-> cache,
           response |-> DictGet(wstate, "response", WNone)])
    /\ wpc' = "idle"
    /\ wstate' = <<>>
    /\ audit_log' = <<>>
    /\ weather_calls' = 0
    /\ UNCHANGED cache

\* cache_agent.update_cache called by another user of the cache, between runs
cache_preset ==
    /\ wpc = "idle"
    /\ \E key \in PresetKeys, value \in PresetValues :
          cache' = update_cache(cache, key, value)
    /\ UNCHANGED <<wpc, wstate, weather_calls, wruns, audit_log>>

NextWeather ==
    \/ (\E query \in Queries : run_multi_agent(query))
          /\ UNCHANGED <<payVars, fmtVars, retryVars, threadVars, toolVars, custVars>>
    \/ query_parser /\ UNCHANGED <<payVars, fmtVars, retryVars, threadVars, toolVars, custVars>>
    \/ time /\ UNCHANGED <<payVars, fmtVars, retryVars, threadVars, toolVars, custVars>>
    \/ geocode /\ UNCHANGED <<payVars, fmtVars, retryVars, threadVars, toolVars, custVars>>
    \/ cache_lookup /\ UNCHANGED <<payVars, fmtVars, retryVars, threadVars, toolVars, custVars>>
    \/ weather_cache_hit /\ UNCHANGED <<payVars, fmtVars, retryVars, threadVars, toolVars, custVars>>
    \/ weather_api /\ UNCHANGED <<payVars, fmtVars, retryVars, threadVars, toolVars, custVars>>
    \/ playground_booking /\ UNCHANGED <<payVars, fmtVars, retryVars, threadVars, toolVars, custVars>>
    \/ response_formatter /\ UNCHANGED <<payVars, fmtVars, retryVars, threadVars, toolVars, custVars>>
    \/ run_multi_agent_return /\ UNCHANGED <<payVars, fmtVars, retryVars, threadVars, toolVars, custVars>>
    \/ cache_preset /\ UNCHANGED <<payVars, fmtVars, retryVars, threadVars, toolVars, custVars>>

SpecWeather == Init /\ [][NextWeather]_vars

(***************************************************************************)
(* Two threads calling payment_orchestrator.process_request at once.  The  *)
(* orchestrator is one process-wide object and _get_transactions takes no  *)
(* lock: a thread can be preempted between two iterations of its loop;     *)
(* deque.appendleft itself is atomic.                                      *)
(***************************************************************************)
\* the requests of the threads: one without, one with an account word
ThreadTexts == { ShowRecent, ShowRecent \o <<" ", "A", "C", "C", "1">> }

\* _get_transactions up to the loop: the service call, state["transactions"]
thread_get_transactions(t, user_input) ==
    /\ prun[t].pc = "idle"
    /\ \E fetch \in get_high_value_transactions(FetchLimit) :
          prun' = [prun EXCEPT ![t] =
                     IF fetch.raised
                     THEN [pc |-> "done"]
                     ELSE [pc |-> "loop",
                           user_id |-> _get_user_id(InitialState(user_input)),
                           transactions |-> fetch.value]]
    /\ UNCHANGED <<user_transaction_memory, plog>>

\* one iteration: self.user_transaction_memory[user_id].appendleft(txn)
thread_appendleft(t) ==
    /\ prun[t].pc = "loop"
    /\ prun[t].transactions # <<>>
    /\ user_transaction_memory' =
          MemoryWith(user_transaction_memory, prun[t].user_id,
                     appendleft(MemoryAt(user_transaction_memory, prun[t].user_id),
                                Head(prun[t].transactions)))
    /\ plog' = Append(plog, [thread |-> t, user_id |-> prun[t].user_id])
    /\ prun' = [prun EXCEPT ![t].transactions = Tail(@)]

\* the loop is over: return state
thread_return(t) ==
    /\ prun[t].pc = "loop"
    /\ prun[t].transactions = <<>>
    /\ prun' = [prun EXCEPT ![t] = [pc |-> "done"]]
    /\ UNCHANGED <<user_transaction_memory, plog>>

NextThreads ==
    \/ (\E t \in Threads, user_input \in ThreadTexts : thread_get_transactions(t, user_input))
          /\ UNCHANGED <<node, state, visited, outcome, recorded, runs, wrun, wlog,
                         fmtVars, retryVars, weatherVars, toolVars, custVars>>
    \/ (\E t \in Threads : thread_appendleft(t))
          /\ UNCHANGED <<node, state, visited, outcome, recorded, runs, wrun, wlog,
                         fmtVars, retryVars, weatherVars, toolVars, custVars>>
    \/ (\E t \in Threads : thread_return(t))
          /\ UNCHANGED <<node, state, visited, outcome, recorded, runs, wrun, wlog,
                         fmtVars, retryVars, weatherVars, toolVars, custVars>>

SpecThreads == Init /\ [][NextThreads]_vars

(***************************************************************************)
(* Two threads calling run_multi_agent at once.  CacheAgent.cache is a     *)
(* class attribute, one dict for the process; neither CacheAgent nor       *)
(* run_multi_agent takes a lock, so a thread can be preempted between the  *)
(* cache step, the weather step and update_cache.                          *)
(***************************************************************************)
\* steps 1-3 of run_multi_agent: they touch the thread's local state only
cthread_start(t, query) ==
    /\ wrun[t].pc = "idle"
    /\ wrun' = [wrun EXCEPT ![t] =
          [pc |-> "cache",
           state |-> GeocodeAgent_run(TimeAgent_run(
                         QueryParserAgent_run(<< <<"query", WStr(query)>> >>)))]]
    /\ UNCHANGED <<cache, wlog>>

\* step 4, agent_map["cache"].run(state), and the branch on cached_weather
cthread_cache_lookup(t) ==
    /\ wrun[t].pc = "cache"
    /\ LET st == CacheAgent_run(wrun[t].state, cache)
           hit == WTruthy(DictGet(st, "cached_weather", WNone))
       IN  /\ wrun' = [wrun EXCEPT ![t] =
                  [pc |-> IF hit THEN "done" ELSE "weather",
                   key |-> CacheKey(wrun[t].state),
                   state |-> IF hit
                             THEN DictSet(st, "weather", DictGet(st, "cached_weather", WNone))
                             ELSE st]]
           /\ wlog' = Append(wlog, [thread |-> t, op |-> IF hit THEN "hit" ELSE "miss",
                                    key |-> CacheKey(wrun[t].state)])
    /\ UNCHANGED cache

\* step 5, state = agent_map["weather"].run(state)
cthread_weather(t) ==
    /\ wrun[t].pc = "weather"
    /\ wrun' = [wrun EXCEPT ![t].pc = "update",
                            ![t].state = WeatherAgent_run(wrun[t].state)]
    /\ UNCHANGED <<cache, wlog>>

\* agent_map["cache"].update_cache(key, state["weather"])
cthread_update_cache(t) ==
    /\ wrun[t].pc = "update"
    /\ cache' = update_cache(cache, CacheKey(wrun[t].state),
                             DictGet(wrun[t].state, "weather", WNone))
    /\ wlog' = Append(wlog, [thread |-> t, op |-> "update", key |-> wrun[t].key])
    /\ wrun' = [wrun EXCEPT ![t].pc = "done"]

NextCacheThreads ==
    \/ (\E t \in Threads, query \in Queries : cthread_start(t, query))
          /\ UNCHANGED <<wpc, wstate, weather_calls, wruns, audit_log, prun, plog,
                         payVars, fmtVars, retryVars, toolVars, custVars>>
    \/ (\E t \in Threads : cthread_cache_lookup(t))
          /\ UNCHANGED <<wpc, wstate, weather_calls, wruns, audit_log, prun, plog,
                         payVars, fmtVars, retryVars, toolVars, custVars>>
    \/ (\E t \in Threads : cthread_weather(t))
          /\ UNCHANGED <<wpc, wstate, weather_calls, wruns, audit_log, prun, plog,
                         payVars, fmtVars, retryVars, toolVars, custVars>>
    \/ (\E t \in Threads : cthread_update_cache(t))
          /\ UNCHANGED <<wpc, wstate, weather_calls, wruns, audit_log, prun, plog,
                         payVars, fmtVars, retryVars, toolVars, custVars>>

SpecCacheThreads == Init /\ [][NextCacheThreads]_vars

(***************************************************************************)
(* handle_call_tool (main.py).  The handler has no await in it, so one     *)
(* call is one step.  Its collaborators (customer_manager, payment_service *)
(* and json.dumps on the service's result) return or raise; env holds the  *)
(* outcome of each for the call.  The JSON text of a response is kept as   *)
(* the record it encodes.                                                  *)
(***************************************************************************)
\* the tools handle_list_tools declares, and names it does not
ToolNames == {"get_recent_transactions", "get_relationship_manager", "switch_customer",
              "list_customers", "raise_servicerequest", "verify_transaction_credit",
              "get_nostro_accounts", "get_treasury_pricing", "get_investment_proposals",
              "get_cash_forecasts", "get_risk_limits"}
UnknownToolNames == {"delete_everything", ""}

\* the argument mappings: any of these keys, each empty or not; or None
ArgumentKeys == {"user_request", "customer_identifier", "customer_id",
                 "transaction_id", "servicerequest_reason"}
ArgumentMappings ==
    { None } \cup
    { Some(a) : a \in UNION { [ks -> {"", "CUST_002"}] : ks \in SUBSET ArgumentKeys } }

\* truth value of arguments.get(k)
ArgTruthy(arguments, k) == k \in DOMAIN arguments /\ arguments[k] # ""

\* the outcomes of the collaborators during one call
ToolEnvs ==
    [detect : {Raised, Returned(None), Returned(Some("CUST_002"))},
     auto_switch : {Raised, Returned(TRUE)},
     switch : {Raised, Returned(TRUE), Returned(FALSE)},
     current : {Returned(None), Returned(Some([customer_name |-> "Acme"]))},
     service : {Raised, Returned([serializable |-> TRUE]),
                Returned([serializable |-> FALSE])}]

\* [TextContent(type="text", text=json.dumps({...}))]
SuccessContent(message, data) ==
    << [type |-> "text",
        text |-> [status |-> "success", data |-> data, message |-> message]] >>
ErrorContent(message) ==
    << [type |-> "text", text |-> [status |-> "error", message |-> message]] >>

\* the first part of the try block: the customer switch found in the text of
\* user_request or customer_identifier; TRUE when a collaborator raises in it
AutoSwitchRaises(arguments, env) ==
    /\ ArgTruthy(arguments, "user_request") \/ ArgTruthy(arguments, "customer_identifier")
    /\ \/ env.detect.raised
       \/ /\ ~env.detect.value.null
          /\ env.auto_switch.raised

\* result = payment_service.<method>(...); return [TextContent(... json.dumps ...)]
ServiceResponse(env, message) ==
    IF env.service.raised THEN Raised
    ELSE IF ~env.service.value.serializable THEN Raised
    ELSE Returned(SuccessContent(message, env.service.value))

\* if customer_id: customer_manager.switch_customer(customer_id); then the call
SwitchThenService(arguments, env, message) ==
    IF ArgTruthy(arguments, "customer_id") /\ env.switch.raised THEN Raised
    ELSE ServiceResponse(env, message)

\* the try block of handle_call_tool: the response it returns, or Raised
\* when an exception leaves it
ToolBody(name, arguments, env) ==
    LET customer_name == IF env.current.value.null THEN "Unknown"
                         ELSE env.current.value.v.customer_name
    IN
    IF AutoSwitchRaises(arguments, env) THEN Raised
    ELSE IF name = "get_recent_transactions"
    THEN SwitchThenService(arguments, env, <<"Retrieved recent transactions for ", customer_name>>)
    ELSE IF name = "get_relationship_manager"
    THEN SwitchThenService(arguments, env, <<"Retrieved relationship manager for ", customer_name>>)
    ELSE IF name = "switch_customer"
    THEN IF ~ArgTruthy(arguments, "customer_identifier")
         THEN Returned(ErrorContent(<<"customer_identifier is required">>))
         ELSE IF env.switch.raised THEN Raised
         ELSE IF env.switch.value
              THEN IF ~env.current.value.null
                   THEN Returned(SuccessContent(
                            <<"Successfully switched to customer: ", customer_name>>,
                            env.current.value.v))
                   ELSE Returned(ErrorContent(<<"Failed to retrieve customer after switch">>))
              ELSE Returned(ErrorContent(<<"Customer not found: ",
                                           arguments["customer_identifier"]>>))
    ELSE IF name = "list_customers"
    THEN ServiceResponse(env, <<"Retrieved customers">>)
    ELSE IF name = "raise_servicerequest"
    THEN IF ~ArgTruthy(arguments, "transaction_id")
              \/ ~ArgTruthy(arguments, "servicerequest_reason")
         THEN Returned(ErrorContent(
                  <<"Both transaction_id and servicerequest_reason are required">>))
         ELSE ServiceResponse(env, <<"Service request raised successfully">>)
    ELSE IF name = "verify_transaction_credit"
    THEN IF ~ArgTruthy(arguments, "transaction_id")
         THEN Returned(ErrorContent(<<"transaction_id is required">>))
         ELSE ServiceResponse(env, <<"Transaction verification completed">>)
    ELSE IF name = "get_nostro_accounts"
    THEN ServiceResponse(env, <<"Retrieved nostro accounts">>)
    ELSE IF name = "get_treasury_pricing"
    THEN SwitchThenService(arguments, env, <<"Retrieved treasury pricing">>)
    ELSE IF name = "get_investment_proposals"
    THEN SwitchThenService(arguments, env, <<"Retrieved investment proposals">>)
    ELSE IF name = "get_cash_forecasts"
    THEN SwitchThenService(arguments, env, <<"Retrieved cash forecasts">>)
    ELSE IF name = "get_risk_limits"
    THEN SwitchThenService(arguments, env, <<"Retrieved risk limits">>)
    ELSE Returned(ErrorContent(<<"Unknown tool: ", name>>))

\* an except clause that handles ValueError only: other exceptions leave
except_Exception_ValueError_only(name, body) == body

\* except Exception as e: the error response in place of the exception
except_Exception(name, body) ==
    IF body.raised
    THEN Returned(ErrorContent(<<"Error executing ", name>>))
    ELSE body

\* the transport delivers a call
tool_request(name, arguments) ==
    /\ tool_call = None
    /\ tool_call' = Some([name |-> name, arguments |-> arguments])
    /\ tool_response' = None

\* handle_call_tool(name, arguments); arguments None is read as {}
handle_call_tool ==
    /\ ~tool_call.null
    /\ tool_response = None
    /\ LET name == tool_call.v.name
           arguments == IF tool_call.v.arguments.null THEN <<>>
                        ELSE tool_call.v.arguments.v
       IN  \E env \in ToolEnvs :
              tool_response' = Some(except_Exception(name, ToolBody(name, arguments, env)))
    /\ UNCHANGED tool_call

\* the transport has sent the response
tool_done ==
    /\ ~tool_response.null
    /\ tool_call' = None
    /\ tool_response' = None

NextTool ==
    \/ (\E name \in ToolNames \cup UnknownToolNames, arguments \in ArgumentMappings :
            tool_request(name, arguments))
          /\ UNCHANGED <<payVars, fmtVars, retryVars, weatherVars, threadVars, custVars>>
    \/ handle_call_tool /\ UNCHANGED <<payVars, fmtVars, retryVars, weatherVars, threadVars, custVars>>
    \/ tool_done /\ UNCHANGED <<payVars, fmtVars, retryVars, weatherVars, threadVars, custVars>>

SpecTool == Init /\ [][NextTool]_vars

(***************************************************************************)
(* Properties of the payment graph (specification Spec).                   *)
(***************************************************************************)
UserInput == DictGet(state, "user_input", <<>>)
ActionNeeded == DictGet(state, "action_needed", <<>>)
InRun == node \notin {"idle"}
Analyzed == InRun /\ visited # <<>>

\* the text contains none of the classifier's keywords
NoKeyword(text) == ~AnyKeyword(Lower(text), AllKeywords)

NoActionResponse == [kind |-> "response", value |-> << <<"none", NoActionSentence>> >>]

\* the sections of a response, in order of first appearance
RECURSIVE SectionsOf(_)
SectionsOf(parts) ==
    IF parts = <<>> THEN <<>>
    ELSE LET rest == SectionsOf(Tail(parts))
         IN  IF rest # <<>> /\ Head(rest) = Head(parts)[1] THEN rest
             ELSE <<Head(parts)[1]>> \o rest

\* C1: a request text with no classifier keyword (the empty and the
\* whitespace-only text included) gets the empty action list, is routed from
\* analyze_request straight to format_response, and its final response is
\* exactly the fixed "No actions were performed..." sentence.
C1_NoKeywordNoAction ==
    (InRun /\ NoKeyword(UserInput)) =>
        /\ ActionNeeded = <<>>
        /\ Analyzed => node \in {"format_response", "END"}
        /\ node = "format_response" => visited = <<"analyze_request">>
        /\ node = "END" =>
              /\ visited = <<"analyze_request", "format_response">>
              /\ outcome = NoActionResponse

C1_Witness ==
    /\ node = "END"
    /\ UserInput = <<" ">>
    /\ ActionNeeded = <<>>
    /\ outcome = NoActionResponse

\* the number of times tag occurs in a list of actions
Occurrences(tag, actions) == Cardinality({ i \in 1..Len(actions) : actions[i] = tag })

\* C2: after _analyze_request, raise_dispute in action_needed implies get_rm
\* in action_needed, exactly once even when the text itself matched a
\* relationship-manager keyword; no tag occurs twice.
C2_DisputeImpliesManagerOnce ==
    Analyzed =>
        /\ InList("raise_dispute", ActionNeeded) => Occurrences("get_rm", ActionNeeded) = 1
        /\ \A i, j \in 1..Len(ActionNeeded) : ActionNeeded[i] = ActionNeeded[j] => i = j

C2_Witness ==
    /\ Analyzed
    /\ AnyKeyword(Lower(UserInput), KW_raise_dispute)
    /\ AnyKeyword(Lower(UserInput), KW_get_rm)
    /\ ActionNeeded = <<"raise_dispute", "get_rm">>

\* the last n recorded entries of a history, most recent first
MostRecent(history, n) ==
    [i \in 1..Min(n, Len(history)) |-> history[Len(history) + 1 - i]]

\* C4: no key of user_transaction_memory ever holds more than 5 entries, and
\* get_last_transactions_for_user returns the most recently recorded entries
\* of the key, most recent first: once more than 5 were recorded, exactly the
\* last 5, the older ones having been evicted oldest first.
C4_MemoryBounded ==
    /\ \A k \in DOMAIN user_transaction_memory :
          /\ Len(user_transaction_memory[k]) <= 5
          /\ user_transaction_memory[k] = MostRecent(MemoryAt(recorded, k), 5)
    /\ outcome.kind = "history" =>
          outcome.value = MostRecent(MemoryAt(recorded, outcome.user_id), 5)

C4_Witness ==
    /\ outcome.kind = "history"
    /\ Len(MemoryAt(recorded, outcome.user_id)) > 5
    /\ Len(outcome.value) = 5
    /\ outcome.value[1] = recorded[outcome.user_id][Len(recorded[outcome.user_id])]
    /\ outcome.value[5] = recorded[outcome.user_id][Len(recorded[outcome.user_id]) - 4]

\* a finished run of 'Show me recent transactions' in which the storage
\* collaborator returned 3 transaction records
ShowRecentRun ==
    /\ node = "END"
    /\ UserInput = ShowRecent
    /\ ~DictGet(state, "transactions", None).null
    /\ Len(DictGet(state, "transactions", None).v) = 3

\* parts 2..4 of the response list the 3 fetched records in the fetched order
ListsFetchedInOrder(parts) ==
    LET txns == DictGet(state, "transactions", None).v
    IN  /\ Len(parts) >= 4
        /\ parts[1] = <<"transactions", "heading">>
        /\ \A i \in 1..3 :
              /\ parts[i + 1][1] = "transactions"
              /\ parts[i + 1][2] = "entry"
              /\ parts[i + 1][3] = i
              /\ parts[i + 1][4] = txns[i].transaction_id
              /\ parts[i + 1][7] = txns[i].status

\* C7 as claimed: the response of that run is the transactions section with
\* the 3 entries in the collaborator's order, followed by the "No actions were
\* performed..." sentence.
C7_SentenceFollowsTransactions ==
    ShowRecentRun =>
        /\ outcome.kind = "response"
        /\ ListsFetchedInOrder(outcome.value)
        /\ Len(outcome.value) = 5
        /\ outcome.value[5] = <<"none", NoActionSentence>>

\* C7 as amended: the request is classified as [get_transactions] under the
\* default actor key, and the response is the transactions section with the 3
\* entries in the collaborator's order and nothing else; the "No actions were
\* performed..." sentence is not part of it.
C7_TransactionsSectionOnly ==
    ShowRecentRun =>
        /\ ActionNeeded = <<"get_transactions">>
        /\ _get_user_id(state) = DefaultUser
        /\ visited = <<"analyze_request", "get_transactions", "format_response">>
        /\ outcome.kind = "response"
        /\ ListsFetchedInOrder(outcome.value)
        /\ Len(outcome.value) = 4
        /\ \A i \in 1..Len(outcome.value) : outcome.value[i][1] # "none"

C7_Witness ==
    /\ ShowRecentRun
    /\ outcome.kind = "response"
    /\ Len(outcome.value) = 4
    /\ SectionsOf(outcome.value) = <<"transactions">>

\* a finished run of 'raise dispute on a failed transaction' in which every
\* collaborator call returned: transactions were fetched, the manager was
\* found and the dispute was raised
RaiseDisputeRun ==
    /\ node = "END"
    /\ UserInput = RaiseDisputeFailed
    /\ Truthy(DictGet(state, "transactions", None))
    /\ Truthy(DictGet(state, "relationship_manager", None))
    /\ Truthy(DictGet(state, "dispute_details", None))
    /\ "error" \notin DOMAIN DictGet(state, "dispute_details", None).v

\* C8: that run executes analyze_request, get_transactions,
\* get_relationship_manager, raise_dispute, format_response in this order,
\* and its response holds the transactions, relationship-manager and dispute
\* sections in this order.
C8_DisputeRunSections ==
    RaiseDisputeRun =>
        /\ ActionNeeded = <<"get_transactions", "raise_dispute", "get_rm">>
        /\ visited = <<"analyze_request", "get_transactions", "get_relationship_manager",
                       "raise_dispute", "format_response">>
        /\ outcome.kind = "response"
        /\ SectionsOf(outcome.value) = <<"transactions", "relationship_manager", "dispute">>

(***************************************************************************)
(* Properties of the routers and the aggregator on arbitrary States        *)
(* (specifications SpecRoute and SpecFormat).                              *)
(***************************************************************************)
\* the sections in their declared order, each with the field it renders
SectionOrder ==
    << <<"transactions", "transactions">>,
       <<"relationship_manager", "relationship_manager">>,
       <<"dispute", "dispute_details">>,
       <<"verification", "verification_result">>,
       <<"nostro_credit", "nostro_credit_result">>,
       <<"nostro_accounts", "nostro_accounts">> >>

\* the sections, from position i on, whose field is populated in st
RECURSIVE PopulatedSections(_, _)
PopulatedSections(st, i) ==
    IF i > Len(SectionOrder) THEN <<>>
    ELSE (IF Truthy(DictGet(st, SectionOrder[i][2], None))
          THEN <<SectionOrder[i][1]>> ELSE <<>>) \o PopulatedSections(st, i + 1)

FinalResponse == DictGet(fstate, "final_response", <<>>)

\* C5: the sections of the response come in the fixed order transactions,
\* relationship manager, dispute, verification, nostro credit check, nostro
\* accounts, and which sections appear depends only on which optional fields
\* are populated, not on the order in which the fields were written.
C5_FixedSectionOrder ==
    (fapplied >= 1 /\ ~fraised) =>
        SectionsOf(FinalResponse) =
            IF PopulatedSections(fstate, 1) = <<>> THEN <<"none">>
            ELSE PopulatedSections(fstate, 1)

C5_Witness ==
    /\ fapplied = 1
    /\ ~fraised
    /\ DictKeys(fstate) =
          <<"nostro_accounts", "dispute_details", "transactions", "final_response">>
    /\ SectionsOf(FinalResponse) = <<"transactions", "dispute", "nostro_accounts">>

\* the fields of a State other than final_response, in dict order
RECURSIVE OtherFields(_)
OtherFields(st) ==
    IF st = <<>> THEN <<>>
    ELSE (IF Head(st)[1] = "final_response" THEN <<>> ELSE <<Head(st)>>)
             \o OtherFields(Tail(st))

\* C6: _format_response is idempotent: a second application in a row leaves
\* the State, final_response included, as the first one left it; and an
\* application changes no field other than final_response.
C6_Idempotent ==
    /\ fapplied >= 1 => OtherFields(fstate) = OtherFields(fprev)
    /\ fapplied >= 2 => fstate = fprev

C6_Witness ==
    /\ fapplied = 2
    /\ ~fraised
    /\ fstate = fprev
    /\ Len(FinalResponse) >= 4

\* the tags in the order of priority of the entry router, with their nodes
EntryPriority ==
    << <<"check_nostro", "check_nostro_credit">>,
       <<"get_nostro_accounts", "get_nostro_accounts">>,
       <<"get_transactions", "get_transactions">>,
       <<"verify_transaction", "verify_transaction">>,
       <<"get_rm", "get_relationship_manager">> >>

\* the node of the highest-priority tag of a set of tags
EntryNode(tags) ==
    IF \E i \in 1..Len(EntryPriority) : EntryPriority[i][1] \in tags
    THEN EntryPriority[CHOOSE i \in 1..Len(EntryPriority) :
                          /\ EntryPriority[i][1] \in tags
                          /\ \A j \in 1..(i - 1) : EntryPriority[j][1] \notin tags][2]
    ELSE "format_response"

\* C10: for every list of tags, in whatever order they were appended,
\* _route_actions selects the one entry node given by the priority
\* check_nostro > get_nostro_accounts > get_transactions > verify_transaction
\* > get_rm > format_response over the set of tags.
C10_EntryPriority ==
    flabel # "none" =>
        LET actions == DictGet(fstate, "action_needed", <<>>)
        IN  EdgeTarget(RouteActionsEdges, flabel) =
                EntryNode({ actions[i] : i \in 1..Len(actions) })

C10_Witness ==
    /\ flabel = "check_nostro_credit"
    /\ DictGet(fstate, "action_needed", <<>>) =
          <<"get_rm", "verify_transaction", "get_transactions", "check_nostro">>

(***************************************************************************)
(* Properties of RetryAgent (specification SpecRetry).                     *)
(***************************************************************************)
\* C3: with max_retries = N >= 1, RetryAgent.run invokes the step until the
\* first result classified as success, at most N times: every result but the
\* last invocation's is a failure, run returns the last invocation's result
\* unchanged, and that result is a failure only if all N invocations were
\* made.
C3_RetryBound ==
    max_retries >= 1 =>
        /\ rpc # "raised"
        /\ Len(calls) <= max_retries
        /\ rpc = "loop" => \A i \in 1..Len(calls) : IsFailure(calls[i])
        /\ rpc = "done" =>
              /\ Len(calls) >= 1
              /\ \A i \in 1..(Len(calls) - 1) : IsFailure(calls[i])
              /\ IsFailure(calls[Len(calls)]) => Len(calls) = max_retries
              /\ returned = Some(calls[Len(calls)])

C3_Witness ==
    /\ rpc = "done"
    /\ max_retries = 3
    /\ Len(calls) = 3
    /\ \A i \in 1..3 : IsFailure(calls[i])
    /\ calls[1] # calls[3]
    /\ calls[2] # calls[3]
    /\ returned = Some(calls[3])

\* some string-valued field of res contains marker
StringFieldContains(res, marker) ==
    \E i \in 1..Len(res) : res[i][2].str /\ Contains(res[i][2].v, marker)

\* the result of invocation i was taken as a failure (the loop went on after
\* it) or as a success (run returned before the last iteration was due)
TakenAsFailure(i) == i < Len(calls) \/ (i = Len(calls) /\ rpc = "loop")
TakenAsSuccess(i) == i = Len(calls) /\ rpc = "done" /\ Len(calls) < max_retries

\* C18 as stated: a result is taken as a failure exactly when a string-valued
\* field contains 'Unable' or 'No ' (with the trailing space).
C18_MarkerNoWithSpace ==
    \A i \in 1..Len(calls) :
        LET marked == \/ StringFieldContains(calls[i], Lit.MarkerUnable)
                      \/ StringFieldContains(calls[i], Lit.MarkerNo \o <<" ">>)
        IN  /\ TakenAsFailure(i) => marked
            /\ TakenAsSuccess(i) => ~marked

\* C18, amended: a result is taken as a failure exactly when a string-valued
\* field contains the case-sensitive substring 'Unable' or the case-sensitive
\* substring 'No' (no trailing space); fields that are not strings never
\* affect the classification.
C18_MarkerNo ==
    \A i \in 1..Len(calls) :
        LET marked == \/ StringFieldContains(calls[i], Lit.MarkerUnable)
                      \/ StringFieldContains(calls[i], Lit.MarkerNo)
        IN  /\ TakenAsFailure(i) => marked
            /\ TakenAsSuccess(i) => ~marked

\* 'Sunny in Norfolk' taken as a failure, then a result whose only marker
\* text sits in a list taken as a success
C18_Witness ==
    /\ rpc = "done"
    /\ max_retries = 3
    /\ Len(calls) = 2
    /\ calls[1] = << <<"weather", Str(Lit.TextSunnyNorfolk)>> >>
    /\ calls[2] = << <<"weather", Str(Lit.TextSunnyDavis)>>,
                     <<"activities", NonStr(<<Lit.TextNoLocation, Lit.TextUnableAlerts>>)>> >>
    /\ returned = Some(calls[2])

(***************************************************************************)
(* Properties of run_multi_agent (specification SpecWeather).              *)
(***************************************************************************)
\* C9: a run whose (latitude, longitude, date) key is not in the cache
\* invokes the weather step once and leaves its result stored under that
\* key; a run after an earlier run with the identical key takes the
\* cache-hit branch, uses the stored value as its weather and does not
\* invoke the weather step.
C9_CacheServesSameKey ==
    \A j \in 1..Len(wruns) :
        LET r == wruns[j]
        IN /\ ~r.in_cache =>
                 /\ r.branch = "weather (API)"
                 /\ r.weather_calls = 1
                 /\ DictGet(r.cache, r.key, WNone) = r.weather
           /\ \A i \in 1..(j - 1) :
                 wruns[i].key = r.key =>
                     /\ r.branch = "weather (cache hit)"
                     /\ r.weather_calls = 0
                     /\ r.weather = DictGet(wruns[j - 1].cache, r.key, WNone)

\* two finished runs with the identical key, the second of which called the
\* weather step again
C9_SecondRunMisses ==
    /\ Len(wruns) = 2
    /\ wruns[1].key = wruns[2].key
    /\ wruns[1].branch = "weather (API)"
    /\ wruns[2].branch = "weather (API)"
    /\ wruns[2].weather_calls = 1

\* a run served from the cache
C9_HitReached ==
    \E j \in 1..Len(wruns) :
        wruns[j].branch = "weather (cache hit)" /\ wruns[j].weather_calls = 0

(***************************************************************************)
(* Properties of the routing functions (specification SpecRoute).          *)
(***************************************************************************)
\* C11: for every action_needed list, each routing function (_route_actions,
\* _check_next_action, _check_dispute_needed) returns a label that is a key
\* of the conditional-edge map _build_graph declares for its source node, so
\* no State leads to an undeclared target.
C11_DeclaredTargets ==
    flabel # "none" =>
        /\ flabel \in DOMAIN RouteActionsEdges
        /\ EdgeTarget(RouteActionsEdges, flabel) # "undeclared"
        /\ _check_next_action(fstate) \in DOMAIN CheckNextActionEdges
        /\ EdgeTarget(CheckNextActionEdges, _check_next_action(fstate)) # "undeclared"
        /\ _check_dispute_needed(fstate) \in DOMAIN CheckDisputeNeededEdges
        /\ EdgeTarget(CheckDisputeNeededEdges, _check_dispute_needed(fstate)) # "undeclared"

C11_Witness ==
    /\ flabel = "get_transactions"
    /\ DictGet(fstate, "action_needed", <<>>) = <<"raise_dispute", "get_transactions">>
    /\ _check_next_action(fstate) = "raise_dispute"
    /\ _check_dispute_needed(fstate) = "raise_dispute"

(***************************************************************************)
(* Termination of a run of the payment graph (specification SpecLive).     *)
(***************************************************************************)
\* C12: every run of process_request, whatever the request text and the
\* collaborators' outcomes, eventually executes format_response and then
\* ends; a run ends only out of format_response, and format_response is the
\* last node it executes.
C12_EndsAfterFormatResponse ==
    /\ [](node = "END" =>
            /\ visited # <<>>
            /\ visited[Len(visited)] = "format_response")
    /\ [](\A i \in 1..(Len(visited) - 1) : visited[i] # "format_response")
    /\ (node = "analyze_request") ~> (node = "END")

C12_Witness ==
    /\ node = "END"
    /\ visited = <<"analyze_request", "get_transactions", "get_relationship_manager",
                   "raise_dispute", "format_response">>
    /\ DictGet(state, "transactions", None) = Some(<<>>)
    /\ DictGet(state, "relationship_manager", None) = None

(***************************************************************************)
(* Error handling of the payment graph (specification Spec).               *)
(***************************************************************************)
\* C13: _format_response never raises on a State reachable in a run: absent
\* or null optional fields are skipped, and every populated field, the
\* relationship-manager record the storage service returns included, is
\* rendered into a section.
C13_FormatNeverRaises ==
    /\ outcome.kind # "raised"
    /\ (node = "END" /\ Truthy(DictGet(state, "relationship_manager", None))) =>
           /\ outcome.kind = "response"
           /\ \E i \in 1..Len(outcome.value) : outcome.value[i][1] = "relationship_manager"

\* a run in which the manager record was found and format_response raised
C13_ManagerRecordRaises ==
    /\ node = "END"
    /\ DictGet(state, "relationship_manager", None) = Some(ManagerRecord)
    /\ outcome = [kind |-> "raised", value |-> "KeyError"]


\* the run executed get_relationship_manager and the collaborator's call
\* raised there: the call never returns a null record, so the field is null
\* after the node exactly when the call raised
ManagerLookupFailed ==
    /\ \E i \in 1..Len(visited) : visited[i] = "get_relationship_manager"
    /\ DictGet(state, "relationship_manager", None) = None

\* C14: when the storage collaborator raises inside a step node, the run
\* gives its caller a distinct failure in place of a formatted response; it
\* does not put default data (an empty transaction list, a null manager) into
\* the State and carry on to a normal response.
C14_FailurePropagates ==
    (node = "END" /\ ManagerLookupFailed) => outcome.kind # "response"

\* the manager lookup raised and the caller got the no-action sentence
C14_SilentDefault ==
    /\ node = "END"
    /\ ManagerLookupFailed
    /\ visited = <<"analyze_request", "get_relationship_manager", "format_response">>
    /\ outcome = NoActionResponse

(***************************************************************************)
(* Concurrent callers (specifications SpecThreads and SpecCacheThreads).   *)
(***************************************************************************)
\* C15: recordings into the memory of one actor key by concurrent runs
\* serialize: the insertions one run's _get_transactions makes into
\* user_transaction_memory[key] are all made before the other run's first
\* one, or all after its last one.
C15_BatchesSerialize ==
    \A i, j, k \in 1..Len(plog) :
        (i < j /\ j < k /\ plog[i].user_id = plog[j].user_id
               /\ plog[j].user_id = plog[k].user_id) =>
            ~(plog[i].thread = plog[k].thread /\ plog[j].thread # plog[i].thread)

\* both threads finished, same key, and their insertions alternate
C15_Interleaved ==
    /\ \A t \in Threads : prun[t].pc = "done"
    /\ Len(plog) = 4
    /\ \A i \in 1..4 : plog[i].user_id = DefaultUser
    /\ plog[1].thread = "t1" /\ plog[2].thread = "t2"
    /\ plog[3].thread = "t1" /\ plog[4].thread = "t2"


\* C16: writes to one key of the process-wide weather cache are mutually
\* exclusive: when two concurrent runs have the identical (latitude,
\* longitude, date) key, nothing the other run does on that key falls
\* between a run's miss and its update.
C16_CheckThenUpdateExclusive ==
    \A i, j, k \in 1..Len(wlog) :
        (/\ i < j /\ j < k
         /\ wlog[i].op = "miss" /\ wlog[k].op = "update"
         /\ wlog[i].thread = wlog[k].thread) =>
            ~(wlog[j].thread # wlog[i].thread /\ wlog[j].key = wlog[i].key)

\* both runs missed on the same key before either updated the cache
C16_Overlap ==
    /\ Len(wlog) = 4
    /\ wlog[1].key = wlog[2].key
    /\ wlog[1] = [thread |-> "t1", op |-> "miss", key |-> wlog[1].key]
    /\ wlog[2] = [thread |-> "t2", op |-> "miss", key |-> wlog[1].key]
    /\ wlog[3].op = "update" /\ wlog[3].thread = "t1"
    /\ wlog[4].op = "update" /\ wlog[4].thread = "t2"

(***************************************************************************)
(* Properties of handle_call_tool (specification SpecTool).                *)
(***************************************************************************)
\* C17: for every tool name and argument mapping (an unknown name, missing
\* required arguments and a raising collaborator included) handle_call_tool
\* returns one response whose status is 'success' or 'error'; no exception
\* reaches the transport.  An unknown name gives status 'error'.
C17_AlwaysOneResponse ==
    ~tool_response.null =>
        /\ ~tool_response.v.raised
        /\ Len(tool_response.v.value) = 1
        /\ tool_response.v.value[1].text.status \in {"success", "error"}
        /\ tool_call.v.name \notin ToolNames =>
               tool_response.v.value[1].text.status = "error"

\* a declared tool whose service call raised, answered with status 'error'
C17_Witness ==
    /\ ~tool_call.null
    /\ tool_call.v.name = "get_nostro_accounts"
    /\ tool_call.v.arguments = None
    /\ ~tool_response.null
    /\ ~tool_response.v.raised
    /\ tool_response.v.value =
          ErrorContent(<<"Error executing ", "get_nostro_accounts">>)

(***************************************************************************)
(* Properties of the order of nodes in a run (specification Spec).         *)
(***************************************************************************)
\* C19: no node is executed twice in a run, so the run never moves back to a
\* node it has visited, and a run executes at most 5 nodes; a run of 5 nodes
\* is analyze_request, get_transactions, get_relationship_manager,
\* raise_dispute, format_response.
C19_NoNodeTwice ==
    /\ \A i, j \in 1..Len(visited) : i # j => visited[i] # visited[j]
    /\ \A i \in 1..Len(visited) : node # visited[i]
    /\ Len(visited) <= 5
    /\ Len(visited) = 5 =>
          visited = <<"analyze_request", "get_transactions", "get_relationship_manager",
                      "raise_dispute", "format_response">>

\* a finished run of five nodes
C19_Witness ==
    /\ node = "END"
    /\ Len(visited) = 5
    /\ visited[4] = "raise_dispute"

\* C20: whenever raise_dispute is executed in a run, get_relationship_manager
\* has been executed earlier in the same run.
C20_ManagerBeforeDispute ==
    \A i \in 1..Len(visited) :
        visited[i] = "raise_dispute" =>
            \E j \in 1..(i - 1) : visited[j] = "get_relationship_manager"

\* a run that has executed raise_dispute without get_transactions before it
C20_Witness ==
    /\ Len(visited) = 3
    /\ visited[3] = "raise_dispute"
    /\ visited[2] = "get_relationship_manager"

\* C21: raise_dispute is executed in a run if and only if the tags contain
\* raise_dispute, contain neither check_nostro nor get_nostro_accounts, and
\* contain get_transactions or do not contain verify_transaction; every other
\* run with raise_dispute among its tags reaches format_response without
\* executing raise_dispute.
DisputeReachable(tags) ==
    /\ InList("raise_dispute", tags)
    /\ ~InList("check_nostro", tags)
    /\ ~InList("get_nostro_accounts", tags)
    /\ InList("get_transactions", tags) \/ ~InList("verify_transaction", tags)

C21_DisputeExactlyWhenReachable ==
    LET disputed == \E i \in 1..Len(visited) : visited[i] = "raise_dispute"
        formatted == \E i \in 1..Len(visited) : visited[i] = "format_response"
    IN  /\ disputed => DisputeReachable(ActionNeeded)
        /\ node \in {"format_response", "END"} /\ DisputeReachable(ActionNeeded) => disputed
        /\ node = "END" /\ InList("raise_dispute", ActionNeeded)
              /\ ~DisputeReachable(ActionNeeded) => formatted /\ ~disputed

\* a finished run with raise_dispute, get_transactions and verify_transaction
\* among its tags that executed raise_dispute
C21_Witness ==
    /\ node = "END"
    /\ InList("verify_transaction", ActionNeeded)
    /\ InList("get_transactions", ActionNeeded)
    /\ visited = <<"analyze_request", "get_transactions", "get_relationship_manager",
                   "raise_dispute", "format_response">>

\* finished runs with raise_dispute among the tags that did not execute it
C21_WitnessVerifyOnly ==
    /\ node = "END"
    /\ InList("raise_dispute", ActionNeeded)
    /\ visited = <<"analyze_request", "verify_transaction", "format_response">>
C21_WitnessNostroAccounts ==
    /\ node = "END"
    /\ InList("raise_dispute", ActionNeeded)
    /\ ~InList("check_nostro", ActionNeeded)
    /\ visited = <<"analyze_request", "get_nostro_accounts", "format_response">>

(***************************************************************************)
(* The raise_dispute node without a disputable transaction (Spec).         *)
(***************************************************************************)
\* the run executed raise_dispute on a State whose transactions are absent,
\* null or empty, or hold no failed or pending transaction
DisputeWithoutTarget ==
    /\ \E i \in 1..Len(visited) : visited[i] = "raise_dispute"
    /\ LET transactions == DictGet(state, "transactions", Some(<<>>))
       IN  ~Truthy(transactions) \/ Disputable(transactions.v) = {}

\* C22: when raise_dispute runs without a disputable transaction it calls no
\* dispute service and sets dispute_details to an in-band error record, and
\* format_response renders it as a dispute error section; this is the outcome
\* of every run whose tags have raise_dispute but not get_transactions.
C22_DisputeErrorRendered ==
    /\ DisputeWithoutTarget =>
          /\ Truthy(DictGet(state, "dispute_details", None))
          /\ "error" \in DOMAIN DictGet(state, "dispute_details", None).v
          /\ DictGet(state, "dispute_details", None).v.error \in
                {"No disputable transactions found", "No transactions available to dispute"}
    /\ (node = "END" /\ DisputeWithoutTarget) =>
          /\ outcome.kind = "response"
          /\ \E i \in 1..Len(outcome.value) :
                outcome.value[i][1] = "dispute" /\ outcome.value[i][2] = "error"
    /\ (node = "END" /\ InList("raise_dispute", ActionNeeded)
           /\ ~InList("get_transactions", ActionNeeded)) => DisputeWithoutTarget

\* a finished run with raise_dispute and without get_transactions among its
\* tags: the error record is in the State, format_response raised KeyError
C22_ErrorRecordNotRendered ==
    /\ node = "END"
    /\ InList("raise_dispute", ActionNeeded)
    /\ ~InList("get_transactions", ActionNeeded)
    /\ DictGet(state, "dispute_details", None) =
          Some([error |-> "No transactions available to dispute"])
    /\ outcome = [kind |-> "raised", value |-> "KeyError"]

(***************************************************************************)
(* get_last_transactions_for_user (specification Spec).                    *)
(***************************************************************************)
\* C23: get_last_transactions_for_user is read-only: for every user_id, one
\* without recorded history included, the call leaves user_transaction_memory
\* (its keys and every key's history) unchanged.
C23_ReadOnly ==
    [][(node = "idle" /\ node' = "idle" /\ outcome'.kind = "history")
          => user_transaction_memory' = user_transaction_memory]_vars

\* the memory holds a key with an empty history that no run has recorded
\* anything under, after a call has asked for that key
C23_KeyCreatedByRead ==
    /\ outcome.kind = "history"
    /\ outcome.value = <<>>
    /\ outcome.user_id \in DOMAIN user_transaction_memory
    /\ outcome.user_id \notin DOMAIN recorded
    /\ user_transaction_memory[outcome.user_id] = <<>>

(***************************************************************************)
(* The key of a run's history (specification SpecAccounts).                *)
(***************************************************************************)
\* the positions of text where a whitespace-separated token begins
TokenStarts(text) ==
    { i \in 1..Len(text) : text[i] # " " /\ (i = 1 \/ text[i - 1] = " ") }

\* the token that begins at position i
TokenAt(text, i) ==
    LET last == CHOOSE j \in i..Len(text) :
                    /\ \A k \in i..j : text[k] # " "
                    /\ j = Len(text) \/ text[j + 1] = " "
    IN  SubSeq(text, i, last)

\* the first token of text that starts with 'ACC' or 'account_', or
\* 'default_user'
FirstAccountToken(text) ==
    LET hits == { i \in TokenStarts(text) :
                     \/ StartsWith(TokenAt(text, i), <<"A", "C", "C">>)
                     \/ StartsWith(TokenAt(text, i),
                                   <<"a", "c", "c", "o", "u", "n", "t", "_">>) }
    IN  IF hits = {} THEN <<"d", "e", "f", "a", "u", "l", "t", "_", "u", "s", "e", "r">>
        ELSE TokenAt(text, CHOOSE i \in hits : \A j \in hits : i <= j)

\* C24: _get_user_id returns the first whitespace-separated token of the
\* request text that starts with 'ACC' or 'account_', and 'default_user' when
\* no token does; the transactions a run fetches are recorded under exactly
\* that key and under no other key.
C24_RecordedUnderUserId ==
    [][node = "get_transactions" =>
         LET key == FirstAccountToken(UserInput)
             fetched == DictGet(state', "transactions", None).v
         IN  /\ _get_user_id(state) = key
             /\ \A k \in (DOMAIN user_transaction_memory' \cup DOMAIN user_transaction_memory)
                         \ {key} :
                   /\ k \in DOMAIN user_transaction_memory
                   /\ k \in DOMAIN user_transaction_memory'
                   /\ user_transaction_memory'[k] = user_transaction_memory[k]
             /\ fetched # <<>> =>
                   /\ key \in DOMAIN user_transaction_memory'
                   /\ \A i \in 1..Len(fetched) :
                         user_transaction_memory'[key][Len(fetched) + 1 - i] = fetched[i]
       ]_vars

\* a run has recorded under 'account_7', the first of two matching tokens,
\* while the memory holds another key from an earlier run
C24_Witness ==
    /\ node # "idle"
    /\ UserInput \in AccountTexts
    /\ _get_user_id(state) = <<"a", "c", "c", "o", "u", "n", "t", "_", "7">>
    /\ UserInput[1] = "p"
    /\ DOMAIN user_transaction_memory =
          { <<"a", "c", "c", "o", "u", "n", "t", "_", "7">>,
            <<"d", "e", "f", "a", "u", "l", "t", "_", "u", "s", "e", "r">> }
    /\ Len(user_transaction_memory[<<"a", "c", "c", "o", "u", "n", "t", "_", "7">>]) = 3
    /\ Len(user_transaction_memory[
              <<"d", "e", "f", "a", "u", "l", "t", "_", "u", "s", "e", "r">>]) > 0

(***************************************************************************)
(* The audit log of run_multi_agent (specification SpecWeather).           *)
(***************************************************************************)
\* the labels a step of run_multi_agent can write
StepLabels(pc) ==
    IF pc = "weather" THEN {"weather (cache hit)", "weather (API)"}
    ELSE IF pc = "playground_booking"
    THEN {"playground_booking (good)", "playground_booking (bad)",
          "playground_booking (other)"}
    ELSE {pc}

\* C25: each entry appended to audit_log is the State at the moment of
\* emission tagged with the step that produced it, and no later step of the
\* run, the steps that change the State in place included, changes an entry
\* already recorded.
C25_AuditEntriesAreSnapshots ==
    [][wpc \notin {"idle", "return"} =>
          /\ Len(audit_log') = Len(audit_log) + 1
          /\ SubSeq(audit_log', 1, Len(audit_log)) = audit_log
          /\ audit_log'[Len(audit_log')][1] \in StepLabels(wpc)
          /\ audit_log'[Len(audit_log')][2] = wstate'
      ]_vars

\* the time step has written 'date' into the State in place after the
\* query_parser entry was recorded, and that entry has no 'date'
C25_Witness ==
    /\ Len(audit_log) >= 4
    /\ audit_log[1][1] = "query_parser"
    /\ ~DictHas(audit_log[1][2], "date")
    /\ DictHas(audit_log[2][2], "date")
    /\ ~DictHas(audit_log[2][2], "cached_weather")
    /\ DictHas(wstate, "cached_weather")

(***************************************************************************)
(* The weather step of run_multi_agent (specification SpecWeather).        *)
(***************************************************************************)
\* the weather text carries a failure marker of the retry wrapper
WeatherMarked(weather) ==
    /\ weather.kind = "str"
    /\ Contains(weather.v, Lit.MarkerUnable) \/ Contains(weather.v, Lit.MarkerNo)

\* C26: the weather step of a run is wrapped with retry logic bounded at 3
\* attempts: when it returns a result carrying a failure marker it is invoked
\* again within the same run, up to 3 invocations in total.
C26_WeatherRetried ==
    /\ weather_calls <= 3
    /\ \A j \in 1..Len(wruns) :
          (wruns[j].branch = "weather (API)" /\ WeatherMarked(wruns[j].weather)) =>
              /\ wruns[j].weather_calls >= 2
              /\ wruns[j].weather_calls <= 3

\* a finished run whose weather step returned 'No location provided.' and
\* was invoked once
C26_SingleInvocation ==
    /\ Len(wruns) >= 1
    /\ wruns[1].branch = "weather (API)"
    /\ wruns[1].weather = WStr(Lit.TextNoLocation)
    /\ wruns[1].weather_calls = 1

(***************************************************************************)
(* Properties of the customer context (specification SpecCustomer).        *)
(***************************************************************************)
\* the identifier is the id of no customer and occurs in no customer's name
MatchesNoCustomer(identifier) ==
    \A i \in 1..Len(Customers) :
        /\ Customers[i].customer_id # identifier
        /\ ~Contains(Lower(Customers[i].customer_name), Lower(identifier))

\* C27: switch_customer with an identifier that matches no customer, or whose
\* storage lookup fails, leaves current_customer_id and customer_cache
\* unchanged; the switch_customer tool answers with status 'error' and later
\* calls see the previous customer context.
C27_FailedSwitchKeepsContext ==
    (/\ ~customer_call.null
     /\ customer_call.v.name = "switch_customer"
     /\ "customer_identifier" \in DOMAIN customer_call.v.arguments
     /\ \/ MatchesNoCustomer(customer_call.v.arguments["customer_identifier"])
        \/ customer_call.v.lookup_failed)
    => /\ customer_response.v.status = "error"
       /\ current_customer_id = customer_call.v.before.current_customer_id
       /\ customer_cache = customer_call.v.before.customer_cache

\* the tool was called with the identifier 'customer: Globex' alone, which
\* matches no customer; it answered 'error' and the context is now Globex
C27_ErrorButSwitched ==
    /\ ~customer_call.null
    /\ customer_call.v.name = "switch_customer"
    /\ DOMAIN customer_call.v.arguments = {"customer_identifier"}
    /\ MatchesNoCustomer(customer_call.v.arguments["customer_identifier"])
    /\ customer_response.v.status = "error"
    /\ customer_call.v.before.current_customer_id = Some(Customers[1].customer_id)
    /\ current_customer_id = Some(Customers[2].customer_id)

\* C28: in every get_recent_transactions response with status 'success' the
\* reported customer name is the customer whose transactions are in data,
\* also when the customer_id argument matches no customer or matches one by
\* name only.
C28_NameMatchesData ==
    (/\ ~customer_call.null
     /\ customer_call.v.name = "get_recent_transactions"
     /\ customer_response.v.status = "success")
    => \E i \in 1..Len(Customers) :
          /\ Customers[i].customer_name = customer_response.v.customer
          /\ customer_response.v.data =
                SelectSeq(CustomerTransactions,
                          LAMBDA row : row.customer_id = Customers[i].customer_id)

\* customer_id 'acme' matched Acme Corp by name: the response names Acme Corp
\* and its data holds none of Acme Corp's transactions
C28_NameWithoutItsData ==
    /\ ~customer_call.null
    /\ customer_call.v.name = "get_recent_transactions"
    /\ DOMAIN customer_call.v.arguments = {"customer_id"}
    /\ customer_call.v.arguments["customer_id"] = <<"a", "c", "m", "e">>
    /\ customer_response.v.status = "success"
    /\ customer_response.v.customer = Customers[1].customer_name
    /\ customer_response.v.data = <<>>


\* C29: on a cache miss run_multi_agent stores what the weather step
\* returned under the run's key, with or without a failure marker in the
\* text; the entry stays, so every later run with the same key is served
\* that same text from the cache and does not invoke the weather step.
C29_StoredAndServed ==
    \A j \in 1..Len(wruns) :
        LET r == wruns[j]
        IN /\ r.branch = "weather (API)" =>
                 /\ DictHas(r.cache, r.key)
                 /\ DictGet(r.cache, r.key, WNone) = r.weather
           /\ \A i \in 1..(j - 1) :
                 (wruns[i].key = r.key /\ wruns[i].branch = "weather (API)") =>
                     /\ r.branch = "weather (cache hit)"
                     /\ r.weather = wruns[i].weather
                     /\ r.weather_calls = 0

\* two runs with one key: the first stored its text under the key of the
\* replaced state and left the run's key absent, the second missed and
\* wrote the same entry again
C29_StoredUnderNoneKey ==
    /\ Len(wruns) = 2
    /\ wruns[1].key = wruns[2].key
    /\ wruns[1].branch = "weather (API)"
    /\ ~DictHas(wruns[1].cache, wruns[1].key)
    /\ wruns[1].cache = << <<CacheKey(<<>>), wruns[1].weather>> >>
    /\ wruns[2].branch = "weather (API)"
    /\ wruns[2].cache = wruns[1].cache


\* the cache holds nothing but what runs of run_multi_agent stored, that is,
\* its contents are reachable from the empty cache
OnlyRunsStored == \A i \in 1..Len(cache) : cache[i][1] \notin PresetKeys

\* C30: in every run of run_multi_agent, for any query and any cache
\* contents reachable from an initially empty cache, the weather value is
\* 'No location provided.' and comes from the weather step; the good-weather
\* and rain branches are not taken: the playground is not booked and the
\* activities are the generic fallback.
C30_NoLocationEveryRun ==
    OnlyRunsStored =>
        /\ Len(audit_log) >= 5 =>
              /\ audit_log[5][1] = "weather (API)"
              /\ DictGet(audit_log[5][2], "weather", WNone) = WStr(Lit.TextNoLocation)
        /\ Len(audit_log) >= 6 =>
              /\ audit_log[6][1] = "playground_booking (other)"
              /\ DictGet(audit_log[6][2], "playground_booking", WNone)
                    = WStr(Lit.PlaygroundNotBooked)
              /\ DictGet(audit_log[6][2], "activities", WNone) = WStr(Lit.OtherActivities)
        /\ \A j \in 1..Len(wruns) :
              /\ wruns[j].branch = "weather (API)"
              /\ wruns[j].weather = WStr(Lit.TextNoLocation)

\* a second run, after a first that stored its text, for a query naming a
\* place: the parser found the place and the weather step still reported no
\* location
C30_Witness ==
    /\ OnlyRunsStored
    /\ Len(wruns) = 1
    /\ Len(cache) = 1
    /\ Len(audit_log) = 6
    /\ DictGet(audit_log[1][2], "location_name", WNone) \notin {WNone, WStr(<<>>)}
    /\ DictGet(audit_log[5][2], "weather", WNone) = WStr(Lit.TextNoLocation)
    /\ audit_log[6][1] = "playground_booking (other)"

====
